---- MODULE Spec2Model ----
(***************************************************************************)
(* StarryGen: the block state store of the Editor and the project view,    *)
(* the effective-block (shadowing) computation, the section visibility     *)
(* resolver, the prompt compiler and the text-overlay drag state machine   *)
(* of the Labs canvas.                                                     *)
(*                                                                         *)
(* The specifications share the variables: SpecStore (the Editor's         *)
(* handlers on the local blocks), SpecGlobal (the project view's and the   *)
(* Editor's handlers on the global blocks), SpecCompiler (the prompt       *)
(* compiler on drawn inputs), SpecCanvas (the Labs canvas), SpecSession    *)
(* (history, Generate, Quick Edit, Rebuild Blocks and Labs Apply of an     *)
(* open file), SpecAsync (the same handlers started while others pend),    *)
(* SpecSummary (the change summary on drawn block lists), SpecInteract     *)
(* (the interactions of Subjects through updateBlock), SpecDebounce, with  *)
(* SpecDebounceFair for its liveness (the suggestion debounce), SpecImport *)
(* (blocks from the AI and from the library), SpecRetry (retryWithBackoff), *)
(* SpecFields (the controls of a block), SpecRequest (the Prompt tab and   *)
(* the generation request), SpecLayers (the Labs layer selection) and      *)
(* SpecCapture (the capture of Labs Apply).                                *)
(*                                                                         *)
(* JavaScript values: strings are TLA+ strings; the values true, false and *)
(* undefined of a field or of a section's enabled flag are the strings     *)
(* JsTrue, JsFalse and Undefined (TLC cannot compare a string with a       *)
(* boolean, and the code compares field values of mixed type with ===).    *)
(* A block's isActive flag is always a boolean and is a TLA+ boolean.      *)
(***************************************************************************)
EXTENDS Integers, Sequences, FiniteSets, TLC

VARIABLES
    blocks,             \* Editor: useState(file.blocks), the local block list
    globalBlocks,       \* App: currentProject.globalBlocks
    selectedBlockId,    \* Editor: selected block id or 'general'
    toastMessage,       \* Editor / ProjectView: last user notice
    baseStyle,          \* Editor: base style text
    useBaseStyle,       \* Editor: "use global style" flag
    now,                \* the value Date.now() returns
    rnd,                \* number of Math.random() suffixes drawn so far
    promptOut,          \* the strings the constructPromptFromBlocks calls returned, oldest first
    argLocal,           \* the content of the blocks array when the first call was made
    argGlobal,          \* the content of the globalBlocks array when the first call was made
    overlays,           \* Labs: labsState.overlays
    selectedLabsLayerId,\* Labs: selected overlay id or Null
    dragMode,           \* LabsCanvas: 'none' | 'move' | 'resize'
    dragStart,          \* LabsCanvas: pointer position at pointer-down
    initialOverlayState,\* LabsCanvas: the overlay hit at pointer-down, or NoOverlay
    pointer,            \* the position of the last pointer event on the canvas
    pressed,            \* the last pointer-down: its position, the overlays and
                        \* the selected overlay id then
    moves,              \* pointer-move events since the last pointer-down, and
                        \* pointer events in all
    history,            \* Editor: useState(file.history), newest entry first
    blockRefs,          \* the identities of the objects in blocks: for each block
                        \* its own object and its sections object
    nextRef,            \* the next object identity the heap hands out
    generatedImage,     \* Editor: the image of the file, or Null
    labsBaseImage,      \* Editor: the image the Labs canvas shows, or Null
    isGenerating,       \* Editor: busy flag of Generate and of the Labs AI action
    isRefining,         \* Editor: busy flag of Quick Edit
    isRebuilding,       \* Editor: busy flag of Rebuild Blocks
    quickEditInstruction, \* Editor: text of the Quick Edit input
    roughIdea,          \* Editor: text of the concept input
    calls,              \* pending asynchronous steps of the handlers, each with
                        \* the values its closure captured
    issued,             \* how many asynchronous handlers were started and how
                        \* many edits and restores were made so far
    timers,             \* the pending timers of the suggestion debounce, each with
                        \* the context its callback captured and the seconds left
    debounceTimerRef,   \* Editor: debounceTimerRef.current, 0 for null
    lastContextRef,     \* Editor: lastContextRef.current
    asked,              \* the contexts the debounce callback has handed to
                        \* generateContextSuggestions, oldest first
    suggesting,         \* the timers whose call of generateContextSuggestions is pending
    canvasSelection,    \* LabsCanvas: the id of the overlay whose selection rectangle
                        \* and resize handle the canvas shows, Null for none
    fileAspectRatio,    \* Editor: aspectRatio, the aspect ratio chosen for the file
    request,            \* geminiService: what generateImageFromBlocks last put
                        \* into a request, or NoRequest
    retry,              \* geminiService: the run of retryWithBackoff: where it
                        \* is, its loop variables, the keys it finds, the errors
                        \* the operation has thrown and the delays it has waited
    debounce            \* measures of the debounce: how many timers were set,
                        \* how many changes of the effect's dependencies were
                        \* made, the seconds since the last one (2 for more)
                        \* and the calls made since the last one

editorVars == <<blocks, globalBlocks, selectedBlockId, toastMessage, baseStyle,
                useBaseStyle, now, rnd>>
promptVars == <<promptOut, argLocal, argGlobal>>
labsVars == <<overlays, selectedLabsLayerId, dragMode, dragStart,
              initialOverlayState, pointer, pressed, moves>>
sessionVars == <<history, blockRefs, nextRef, generatedImage, labsBaseImage, isGenerating, isRefining,
                 isRebuilding, quickEditInstruction, roughIdea, calls, issued>>
debounceVars == <<timers, debounceTimerRef, lastContextRef, asked, suggesting, debounce>>
serviceVars == <<retry>>
requestVars == <<fileAspectRatio, request>>
canvasVars == <<canvasSelection>>
restVars == <<sessionVars, debounceVars, serviceVars, requestVars, canvasVars>>
vars == <<editorVars, promptVars, labsVars, restVars>>

(***************************************************************************)
(* JavaScript scalars                                                      *)
(***************************************************************************)
JsTrue == "<true>"
JsFalse == "<false>"
Undefined == "<undefined>"
Null == "<null>"

\* !v of JavaScript for the values a field, label or flag can hold
Falsy(v) == v \in {JsFalse, Undefined, Null, ""}

(***************************************************************************)
(* types.ts: BlockType                                                     *)
(***************************************************************************)
SUBJECT == "Subject"
BACKGROUND == "Background & Atmosphere"
MOOD == "Mood & Emotion"
LIGHTING == "Lighting"
CAMERA == "Camera & Composition"
STYLE == "Art Style"
POST_PROCESSING == "Post-Processing"
FX == "Special Effects"

BlockType == {SUBJECT, BACKGROUND, MOOD, LIGHTING, CAMERA, STYLE, POST_PROCESSING, FX}

(***************************************************************************)
(* constants.ts: BLOCK_DEFINITIONS.  The catalog is static data; the model *)
(* keeps, per type, the sections and fields the resolver and the compiler  *)
(* branch on (conditions, toggles, the transparency and interactions       *)
(* sections, one plain section per type) with their ids, labels, defaults. *)
(* A condition is [blockType, sectionId, fieldId, value]; value is the set *)
(* of accepted values (a scalar is the singleton), blockType is Undefined  *)
(* when the controlling block is the block itself.                         *)
(***************************************************************************)
NoCondition == [blockType |-> Undefined, sectionId |-> Undefined,
                fieldId |-> Undefined, value |-> {}]

Field(id, label, type, defaultValue) ==
    [id |-> id, label |-> label, type |-> type, defaultValue |-> defaultValue]

Section(id, toggleable, condition, fields) ==
    [id |-> id, toggleable |-> toggleable, condition |-> condition, fields |-> fields]

Sentient == {"Human", "Animal", "Creature", "Robot"}

BLOCK_DEFINITIONS ==
    [t \in BlockType |->
      CASE t = SUBJECT ->
        [type |-> t, label |-> "Subject", singleActiveInstance |-> FALSE,
         sections |-> <<
           Section("core", FALSE, NoCondition,
                   <<Field("category", "Type", "select", "Human"),
                     Field("role", "Description/Role", "text", "")>>),
           Section("object_specs", FALSE,
                   [blockType |-> Undefined, sectionId |-> "core",
                    fieldId |-> "category", value |-> {"Object", "Vehicle"}],
                   <<Field("material_type", "Material", "select", "Matte Plastic")>>),
           Section("interactions", TRUE,
                   [blockType |-> Undefined, sectionId |-> "core",
                    fieldId |-> "category", value |-> Sentient],
                   <<Field("target_subject", "With Whom?", "select", "None"),
                     Field("interaction_type", "Doing What?", "text", "")>>) >>]
      [] t = BACKGROUND ->
        [type |-> t, label |-> "Background", singleActiveInstance |-> TRUE,
         sections |-> <<
           Section("setting", FALSE, NoCondition,
                   <<Field("type", "Type", "select", "Outdoor"),
                     Field("environment", "Setting", "text", "")>>),
           Section("weather", TRUE, NoCondition,
                   <<Field("precip_type", "Condition", "select", "None")>>),
           Section("transparency", TRUE, NoCondition,
                   <<Field("remove_bg", "Transparent BG", "toggle", JsFalse)>>) >>]
      [] t = MOOD ->
        [type |-> t, label |-> "Mood", singleActiveInstance |-> TRUE,
         sections |-> <<
           Section("emotion", FALSE,
                   [blockType |-> SUBJECT, sectionId |-> "core",
                    fieldId |-> "category", value |-> Sentient],
                   <<Field("primary", "Feeling", "text", "")>>),
           Section("atmosphere", FALSE, NoCondition,
                   <<Field("vibe", "Atmosphere", "text", "")>>) >>]
      [] t = LIGHTING ->
        [type |-> t, label |-> "Lighting", singleActiveInstance |-> TRUE,
         sections |-> <<
           Section("key_light", FALSE, NoCondition,
                   <<Field("source", "Source", "select", "Sun")>>) >>]
      [] t = CAMERA ->
        [type |-> t, label |-> "Camera", singleActiveInstance |-> TRUE,
         sections |-> <<
           Section("composition", FALSE, NoCondition,
                   <<Field("shot_size", "Shot Size", "select", "Medium Shot")>>) >>]
      [] t = STYLE ->
        [type |-> t, label |-> "Art Style", singleActiveInstance |-> TRUE,
         sections |-> <<
           Section("render", FALSE, NoCondition,
                   <<Field("medium", "Medium", "select", "Photography")>>),
           Section("film_stock", FALSE,
                   [blockType |-> Undefined, sectionId |-> "render",
                    fieldId |-> "medium", value |-> {"Photography"}],
                   <<Field("film_type", "Stock", "text", "")>>) >>]
      [] t = POST_PROCESSING ->
        [type |-> t, label |-> "Color Grade", singleActiveInstance |-> TRUE,
         sections |-> <<
           Section("grading", FALSE, NoCondition,
                   <<Field("tone", "Tone", "select", "Natural")>>) >>]
      [] t = FX ->
        [type |-> t, label |-> "Effects", singleActiveInstance |-> FALSE,
         sections |-> <<
           Section("particles", FALSE, NoCondition,
                   <<Field("type", "Type", "select", "Dust")>>) >>] ]

SingleTypes == {t \in BlockType : BLOCK_DEFINITIONS[t].singleActiveInstance}

\* indexes of a sequence, and the elements of a sequence
Range(s) == {s[i] : i \in 1..Len(s)}
SectionIds(def) == {def.sections[i].id : i \in 1..Len(def.sections)}
FieldIds(secDef) == {secDef.fields[i].id : i \in 1..Len(secDef.fields)}
SecDefOf(def, secId) == CHOOSE s \in Range(def.sections) : s.id = secId
FieldDefOf(secDef, fieldId) == CHOOSE f \in Range(secDef.fields) : f.id = fieldId

\* the sections object addBlock and createDefaultBlockState build from the schema
DefaultSections(def) ==
    [s \in SectionIds(def) |->
        [enabled |-> IF SecDefOf(def, s).toggleable THEN JsFalse ELSE Undefined,
         fields |-> [f \in FieldIds(SecDefOf(def, s)) |->
                        FieldDefOf(SecDefOf(def, s), f).defaultValue]]]

(***************************************************************************)
(* Bounds of the model                                                     *)
(***************************************************************************)
MaxBlocks == 2      \* longest local block list the Editor actions build
MaxGlobals == 2     \* longest global block list addGlobalBlock builds
MaxClock == 1       \* last millisecond the clock reaches (it starts at 0)
MaxLocalArgs == 2   \* longest local list handed to the prompt compiler
MaxCalls == 2       \* calls of the prompt compiler on one input
MaxOverlays == 1    \* text overlays on the Labs canvas
MaxEvents == 5      \* pointer events the canvas receives
MaxIssued == 1      \* asynchronous handlers started in one session
MaxEdits == 1       \* block toggles and history restores in one session
MaxInFlight == 2    \* asynchronous handlers started while the busy flags are watched
MaxChanges == 3     \* changes of the dependencies of the suggestion effect

(***************************************************************************)
(* Object helpers                                                          *)
(***************************************************************************)
\* { ...r, [k]: v }
With(r, k, v) == [f \in (DOMAIN r) \cup {k} |-> IF f = k THEN v ELSE r[f]]

\* block.sections[sec]?.fields[fld]
FieldValue(block, sec, fld) ==
    IF sec \in DOMAIN block.sections
    THEN IF fld \in DOMAIN block.sections[sec].fields
         THEN block.sections[sec].fields[fld]
         ELSE Undefined
    ELSE Undefined

StartsWith(s, p) == Len(s) >= Len(p) /\ SubSeq(s, 1, Len(p)) = p

\* array.map(f) for a per-element operator given as a function on the elements
MapSeq(s, F(_)) == [i \in 1..Len(s) |-> F(s[i])]

\* array.findIndex(pred): 0 when there is none (JavaScript's -1)
FindIndex(s, Pred(_)) ==
    IF \E i \in 1..Len(s) : Pred(s[i])
    THEN CHOOSE i \in 1..Len(s) : Pred(s[i]) /\ \A j \in 1..(i - 1) : ~Pred(s[j])
    ELSE 0

(***************************************************************************)
(* constants.ts                                                            *)
(***************************************************************************)
\* the id createDefaultBlockState builds: b-<type>-<Date.now()>-<random suffix>;
\* the nine random base-36 characters are a fresh suffix per draw
DefaultBlockId(type) == "b-" \o type \o "-" \o ToString(now) \o "-r" \o ToString(rnd)

createDefaultBlockState(type) ==
    [id |-> DefaultBlockId(type),
     type |-> type,
     isActive |-> TRUE,
     customLabel |-> BLOCK_DEFINITIONS[type].label,
     sections |-> DefaultSections(BLOCK_DEFINITIONS[type]),
     referenceImage |-> Undefined]

getSmartLabel(block) ==
    LET def == BLOCK_DEFINITIONS[block.type]
        cl == block.customLabel
        role == FieldValue(block, "core", "role")
        category == FieldValue(block, "core", "category")
        env == FieldValue(block, "setting", "environment")
        type == FieldValue(block, "setting", "type")
        source == FieldValue(block, "key_light", "source")
        fallback == IF Falsy(cl) THEN def.label ELSE cl
    IN  IF ~Falsy(cl) /\ cl # def.label /\ ~StartsWith(cl, def.label \o " ") THEN cl
        ELSE IF block.type = SUBJECT
             THEN IF ~Falsy(role) /\ role \notin {"Subject", "Description/Role"} THEN role
                  ELSE IF ~Falsy(category) THEN category ELSE fallback
        ELSE IF block.type = BACKGROUND
             THEN IF ~Falsy(env) /\ env # "Environment" THEN env
                  ELSE IF ~Falsy(type) THEN type \o " Scene" ELSE fallback
        ELSE IF block.type = LIGHTING
             THEN IF ~Falsy(source) THEN source \o " Light" ELSE fallback
        ELSE fallback

(***************************************************************************)
(* Editor: the effective block list                                        *)
(***************************************************************************)
HasType(list, t) == \E i \in 1..Len(list) : list[i].type = t
HasId(list, id) == \E i \in 1..Len(list) : list[i].id = id

MarkGlobal(gb) == With(gb, "isGlobal", TRUE)

\* a filter that lets only the active local blocks shadow a global
RelevantGlobalActiveOnly(gb, locals) ==
    ~(BLOCK_DEFINITIONS[gb.type].singleActiveInstance
      /\ \E i \in 1..Len(locals) : locals[i].type = gb.type /\ locals[i].isActive)

\* the filter callback of effectiveBlocks: keep gb unless its type is
\* singleActiveInstance and some local block has that type
RelevantGlobal(gb, locals) ==
    ~(BLOCK_DEFINITIONS[gb.type].singleActiveInstance /\ HasType(locals, gb.type))

computeEffectiveBlocks(locals, globals, use) ==
    IF use /\ Len(globals) > 0
    THEN LET Keep(gb) == RelevantGlobal(gb, locals)
         IN  SelectSeq(MapSeq(globals, MarkGlobal), Keep) \o locals
    ELSE locals

effectiveBlocks == computeEffectiveBlocks(blocks, globalBlocks, useBaseStyle)

(***************************************************************************)
(* A block is [id, type, isActive, customLabel, sections, referenceImage]; *)
(* a property the code leaves out (customLabel of an AI block,             *)
(* referenceImage of a new block) holds Undefined.  The effective list     *)
(* adds isGlobal: true to the copies of the global blocks.                 *)
(***************************************************************************)
CountType(list, t) == Cardinality({i \in 1..Len(list) : list[i].type = t})

\* JSON.parse(JSON.stringify(block)) of a block taken from a rendered list
JsonCopy(block) == [f \in DOMAIN block |-> block[f]]

(***************************************************************************)
(* The library the Editor offers (App.localLibrary): the blocks of the     *)
(* project's other file and the project's global blocks.  The other file   *)
(* holds a Background set in a forest and has a preview image.             *)
(***************************************************************************)
OtherFileBlocks ==
    { [id |-> "b-Background & Atmosphere-0-f3", type |-> BACKGROUND, isActive |-> TRUE,
       customLabel |-> "Background",
       sections |-> [DefaultSections(BLOCK_DEFINITIONS[BACKGROUND])
                       EXCEPT !["setting"].fields["environment"] = "Forest"],
       referenceImage |-> Undefined] }

LibraryItems ==
    {[block |-> b, sourcePreview |-> "preview.png"] : b \in OtherFileBlocks}
    \cup {[block |-> globalBlocks[i], sourcePreview |-> Undefined] : i \in 1..Len(globalBlocks)}

\* the block types the add-block modals of the model offer
AddTypes == {SUBJECT, BACKGROUND}

(***************************************************************************)
(* Editor: block store operations                                          *)
(***************************************************************************)
\* insertNewBlock: the list it passes to setBlocks
InsertedList(list, newBlock, isSingleInstance) ==
    LET Off(b) == IF b.type = newBlock.type /\ b.isActive
                  THEN [b EXCEPT !.isActive = FALSE] ELSE b
    IN  (IF isSingleInstance THEN MapSeq(list, Off) ELSE list) \o <<newBlock>>

\* insertNewBlock: deactivatedOther
DeactivatedOther(list, newBlock, isSingleInstance) ==
    isSingleInstance /\ \E i \in 1..Len(list) :
        list[i].type = newBlock.type /\ list[i].isActive

insertNewBlock(newBlock, isSingleInstance) ==
    /\ blocks' = InsertedList(blocks, newBlock, isSingleInstance)
    /\ selectedBlockId' = newBlock.id
    /\ toastMessage' = IF DeactivatedOther(blocks, newBlock, isSingleInstance)
                       THEN "Switched active to new block."
                       ELSE "Added block: " \o newBlock.customLabel

addBlock(type) ==
    LET def == BLOCK_DEFINITIONS[type]
        newCount == CountType(blocks, type) + 1
        newBlock == [id |-> "block-" \o ToString(now),
                     type |-> type,
                     isActive |-> TRUE,
                     customLabel |-> def.label \o " " \o ToString(newCount),
                     sections |-> DefaultSections(def),
                     referenceImage |-> Undefined]
    IN  /\ Len(blocks) < MaxBlocks
        /\ insertNewBlock(newBlock, def.singleActiveInstance)
        /\ UNCHANGED <<globalBlocks, baseStyle, useBaseStyle, now, rnd>>

addBlockFromLibrary(libraryBlock, sourcePreview) ==
    LET def == BLOCK_DEFINITIONS[libraryBlock.type]
        smartName == getSmartLabel(libraryBlock)
        newBlock == [JsonCopy(libraryBlock) EXCEPT
                        !.id = "lib-block-" \o ToString(now),
                        !.isActive = TRUE,
                        !.customLabel = smartName,
                        !.referenceImage = sourcePreview]
    IN  /\ Len(blocks) < MaxBlocks
        /\ insertNewBlock(newBlock, def.singleActiveInstance)
        /\ UNCHANGED <<globalBlocks, baseStyle, useBaseStyle, now, rnd>>

IsGlobalId(id) == HasId(globalBlocks, id)

removeBlock(id) ==
    /\ IF IsGlobalId(id)
       THEN /\ toastMessage' = "Cannot delete Global Block here. Go to Project Settings."
            /\ UNCHANGED <<blocks, selectedBlockId>>
       ELSE /\ blocks' = SelectSeq(blocks, LAMBDA b : b.id # id)
            /\ selectedBlockId' = IF selectedBlockId = id THEN "general" ELSE selectedBlockId
            /\ UNCHANGED toastMessage
    /\ UNCHANGED <<globalBlocks, baseStyle, useBaseStyle, now, rnd>>

\* newBlocks.splice(idx + 1, 0, newBlock)
SpliceAfter(list, idx, newBlock) ==
    SubSeq(list, 1, idx) \o <<newBlock>> \o SubSeq(list, idx + 1, Len(list))

duplicateBlock(block) ==
    /\ IF IsGlobalId(block.id)
       THEN /\ toastMessage' = "Cannot duplicate Global Block here."
            /\ UNCHANGED <<blocks, selectedBlockId>>
       ELSE LET def == BLOCK_DEFINITIONS[block.type]
                newCount == CountType(blocks, block.type) + 1
                newBlock == [JsonCopy(block) EXCEPT
                                !.id = "block-" \o ToString(now),
                                !.customLabel = def.label \o " " \o ToString(newCount),
                                !.isActive = IF def.singleActiveInstance THEN FALSE
                                             ELSE block.isActive]
                idx == FindIndex(blocks, LAMBDA b : b.id = block.id)
            IN  /\ Len(blocks) < MaxBlocks
                /\ blocks' = SpliceAfter(blocks, idx, newBlock)
                /\ selectedBlockId' = newBlock.id
                /\ UNCHANGED toastMessage
    /\ UNCHANGED <<globalBlocks, baseStyle, useBaseStyle, now, rnd>>

\* App.updateGlobalBlock: the list it stores in the current project
updateGlobalBlock(globals, updatedBlock) ==
    LET Swap(b) == IF b.id = updatedBlock.id THEN updatedBlock ELSE b
    IN  MapSeq(globals, Swap)

\* toggleBlockActive on a local block: the list it passes to setBlocks
ToggledList(list, block) ==
    LET def == BLOCK_DEFINITIONS[block.type]
        willBeActive == ~block.isActive
        Off(b) == IF b.type = block.type /\ b.id # block.id /\ b.isActive
                  THEN [b EXCEPT !.isActive = FALSE] ELSE b
        Set(b) == IF b.id = block.id THEN [b EXCEPT !.isActive = willBeActive] ELSE b
        first == IF willBeActive /\ def.singleActiveInstance THEN MapSeq(list, Off) ELSE list
    IN  MapSeq(first, Set)

toggleBlockActive(block) ==
    LET def == BLOCK_DEFINITIONS[block.type]
        willBeActive == ~block.isActive
        deactivatedOther ==
            willBeActive /\ def.singleActiveInstance /\ \E i \in 1..Len(blocks) :
                blocks[i].type = block.type /\ blocks[i].id # block.id /\ blocks[i].isActive
    IN  /\ IF IsGlobalId(block.id)
           THEN /\ globalBlocks' =
                      updateGlobalBlock(globalBlocks, [block EXCEPT !.isActive = willBeActive])
                /\ UNCHANGED <<blocks, toastMessage>>
           ELSE /\ blocks' = ToggledList(blocks, block)
                /\ toastMessage' = IF deactivatedOther
                                   THEN "Switched active " \o def.label \o ". Only one allowed."
                                   ELSE toastMessage
                /\ UNCHANGED globalBlocks
        /\ UNCHANGED <<selectedBlockId, baseStyle, useBaseStyle, now, rnd>>

handleBlockSelect(id) ==
    /\ selectedBlockId' = id
    /\ UNCHANGED <<blocks, globalBlocks, toastMessage, baseStyle, useBaseStyle, now, rnd>>

setUseBaseStyle(v) ==
    /\ useBaseStyle' = v
    /\ UNCHANGED <<blocks, globalBlocks, selectedBlockId, toastMessage, baseStyle, now, rnd>>

(***************************************************************************)
(* ProjectView: addGlobalBlock (its notice goes to the project view's own  *)
(* toast, which the model does not hold)                                   *)
(***************************************************************************)
addGlobalBlock(type) ==
    LET def == BLOCK_DEFINITIONS[type]
        existingCount == CountType(globalBlocks, type)
        customLabel == IF ~def.singleActiveInstance /\ existingCount > 0
                       THEN def.label \o " " \o ToString(existingCount + 1)
                       ELSE def.label
        newBlock == [createDefaultBlockState(type) EXCEPT !.customLabel = customLabel]
        Off(b) == IF b.type = type /\ b.isActive THEN [b EXCEPT !.isActive = FALSE] ELSE b
        updatedBlocks == (IF def.singleActiveInstance THEN MapSeq(globalBlocks, Off)
                          ELSE globalBlocks) \o <<newBlock>>
    IN  /\ Len(globalBlocks) < MaxGlobals
        /\ globalBlocks' = updatedBlocks
        /\ rnd' = rnd + 1
        /\ UNCHANGED <<blocks, selectedBlockId, toastMessage, baseStyle, useBaseStyle, now>>

\* time passes between two events
Tick ==
    /\ now < MaxClock
    /\ now' = now + 1
    /\ UNCHANGED <<blocks, globalBlocks, selectedBlockId, toastMessage, baseStyle,
                   useBaseStyle, rnd>>

(***************************************************************************)
(* BlockControls.tsx: the sections shown for a block                       *)
(***************************************************************************)
\* allBlocks.find(b => b.type === t && b.isActive), as a position (0: none)
FindActiveOfType(list, t) ==
    LET P(b) == b.type = t /\ b.isActive IN FindIndex(list, P)

\* a find that does not look at isActive
FindAnyOfType(list, t) ==
    LET P(b) == b.type = t IN FindIndex(list, P)

\* the target lookup of a condition that names a blockType
FindTarget(list, t) == FindActiveOfType(list, t)

\* the callback of definition.sections.filter in BlockControls
SectionShown(block, section, allBlocks) ==
    IF section.condition = NoCondition THEN TRUE
    ELSE LET cond == section.condition
             crossBlock == cond.blockType # Undefined /\ Len(allBlocks) > 0
             t == IF crossBlock THEN FindTarget(allBlocks, cond.blockType) ELSE 0
         IN  IF crossBlock /\ t = 0 THEN FALSE
             ELSE LET controllingBlock == IF crossBlock THEN allBlocks[t] ELSE block
                      controllingValue ==
                          FieldValue(controllingBlock, cond.sectionId, cond.fieldId)
                  IN  controllingValue \in cond.value

visibleSections(block, allBlocks) ==
    LET Shown(section) == SectionShown(block, section, allBlocks)
    IN  SelectSeq(BLOCK_DEFINITIONS[block.type].sections, Shown)

(***************************************************************************)
(* geminiService.ts: constructPromptFromBlocks                             *)
(***************************************************************************)
IsolationDirective ==
    "Isolated on a solid pure white background (#FFFFFF). No shadows, no environment, clean edges for cutout."

RECURSIVE Join(_, _)
\* array.join(sep)
Join(parts, sep) ==
    IF Len(parts) = 0 THEN ""
    ELSE IF Len(parts) = 1 THEN parts[1]
    ELSE parts[1] \o sep \o Join(Tail(parts), sep)

\* localTypes.has(gb.type) for a singleActiveInstance global: localTypes holds
\* the types of the active local blocks
ShadowedByActiveLocal(gb, localBlocks) ==
    /\ BLOCK_DEFINITIONS[gb.type].singleActiveInstance
    /\ \E i \in 1..Len(localBlocks) :
          localBlocks[i].isActive /\ localBlocks[i].type = gb.type

\* blocksToProcess before the sort
MergedBlocks(localBlocks, use, globals) ==
    IF use /\ Len(globals) > 0
    THEN LET Keep(gb) == gb.isActive /\ ~ShadowedByActiveLocal(gb, localBlocks)
         IN  SelectSeq(globals, Keep) \o localBlocks
    ELSE localBlocks

\* backgroundBlock?.sections['transparency']?.fields['remove_bg'] === true
TransparencyOn(backgroundBlock) ==
    FieldValue(backgroundBlock, "transparency", "remove_bg") = JsTrue

isTransparencyEnabled(blocksToProcess) ==
    LET i == FindActiveOfType(blocksToProcess, BACKGROUND)
    IN  i # 0 /\ TransparencyOn(blocksToProcess[i])

\* a table that puts the Camera after the Lighting
TYPE_PRIORITY_LightFirst(t) ==
    CASE t = SUBJECT -> 0 [] t = LIGHTING -> 1 [] t = CAMERA -> 2
      [] t = BACKGROUND -> 3 [] t = FX -> 4 [] t = STYLE -> 5
      [] t = POST_PROCESSING -> 6 [] t = MOOD -> 7 [] OTHER -> 99

TYPE_PRIORITY(t) ==
    CASE t = SUBJECT -> 0 [] t = CAMERA -> 1 [] t = LIGHTING -> 2
      [] t = BACKGROUND -> 3 [] t = FX -> 4 [] t = STYLE -> 5
      [] t = POST_PROCESSING -> 6 [] t = MOOD -> 7 [] OTHER -> 99

\* the values the comparator can see, ascending (99 stands for a type the
\* table lacks)
Priorities == <<0, 1, 2, 3, 4, 5, 6, 7, 99>>

RECURSIVE SortFrom(_, _)
\* Array.prototype.sort with the comparator pA - pB is stable: the blocks of
\* each priority in list order, the priorities ascending
SortFrom(list, ps) ==
    IF Len(ps) = 0 THEN <<>>
    ELSE LET HasP(b) == TYPE_PRIORITY(b.type) = Head(ps)
         IN  SelectSeq(list, HasP) \o SortFrom(list, Tail(ps))

sortedBlocks(blocksToProcess) == SortFrom(blocksToProcess, Priorities)

\* the callback of Object.entries(block.sections).filter: the entries of
\* block.sections are in the order of the definition's sections, the order
\* in which addBlock, createDefaultBlockState and parseRawBlocksToState fill
\* the object
SectionActive(block, secDef, sorted) ==
    /\ secDef.id \in DOMAIN block.sections
    /\ ~(secDef.toggleable /\ Falsy(block.sections[secDef.id].enabled))
    /\ \/ secDef.condition = NoCondition
       \/ LET cond == secDef.condition
              crossBlock == cond.blockType # Undefined
              t == IF crossBlock THEN FindActiveOfType(sorted, cond.blockType) ELSE 0
          IN  /\ ~(crossBlock /\ t = 0)
              /\ FieldValue(IF crossBlock THEN sorted[t] ELSE block,
                            cond.sectionId, cond.fieldId) \in cond.value

activeSections(block, sorted) ==
    LET Active(secDef) == SectionActive(block, secDef, sorted)
    IN  SelectSeq(BLOCK_DEFINITIONS[block.type].sections, Active)

\* block.customLabel || 'The Subject'
subjectName(block) == IF Falsy(block.customLabel) THEN "The Subject" ELSE block.customLabel

\* the FRAMING part of a Camera block; aspectRatio may be Undefined
Framing(block, sorted, aspectRatio) ==
    LET shown == \E i \in 1..Len(activeSections(block, sorted)) :
                     activeSections(block, sorted)[i].id = "composition"
        shotSize == IF shown THEN FieldValue(block, "composition", "shot_size")
                    ELSE Undefined
        isWideRatio == aspectRatio \in {"16:9", "21:9"}
    IN  IF block.type # CAMERA THEN <<>>
        ELSE IF shotSize = "Extreme Close-up"
        THEN <<"FRAMING: MACRO SHOT. Focus exclusively on details. If aspect ratio is wide, fill the frame horizontally with the subject's face/detail. Do not zoom out.">>
        ELSE IF shotSize = "Close-up"
        THEN IF isWideRatio
             THEN <<"FRAMING: ANAMORPHIC CLOSE-UP. Subject dominates the foreground. Crop top of head/chin if needed to fill width. Do not show wide environment.">>
             ELSE <<"FRAMING: CLOSE-UP. Subject fills the frame.">>
        ELSE <<>>

\* what one field adds to fieldsDesc (the fields of the catalog kept here
\* hold strings and booleans)
FieldDesc(fieldDef, val) ==
    IF val \in {"None", JsFalse, ""} THEN ""
    ELSE IF val = JsTrue THEN fieldDef.id \o ", "
    ELSE fieldDef.label \o ": " \o val \o ", "

RECURSIVE FieldsDescFrom(_, _, _)
\* fieldsDesc after the fields from position i on, in the order of the
\* definition (the order the fields object was filled in)
FieldsDescFrom(secState, secDef, i) ==
    IF i > Len(secDef.fields) THEN ""
    ELSE LET fd == secDef.fields[i]
         IN  (IF fd.id \in DOMAIN secState.fields
              THEN FieldDesc(fd, secState.fields[fd.id]) ELSE "")
             \o FieldsDescFrom(secState, secDef, i + 1)

\* fieldsDesc.slice(0, -2) when fieldsDesc is not empty
SectionPart(block, secDef) ==
    LET fieldsDesc == FieldsDescFrom(block.sections[secDef.id], secDef, 1)
    IN  IF secDef.id = "interactions" \/ fieldsDesc = "" THEN <<>>
        ELSE <<SubSeq(fieldsDesc, 1, Len(fieldsDesc) - 2)>>

RECURSIVE SectionParts(_, _)
SectionParts(block, secDefs) ==
    IF Len(secDefs) = 0 THEN <<>>
    ELSE SectionPart(block, Head(secDefs)) \o SectionParts(block, Tail(secDefs))

blockDescParts(block, sorted, aspectRatio) ==
    Framing(block, sorted, aspectRatio) \o SectionParts(block, activeSections(block, sorted))

\* the interactions suffix of a block
interactions(block, sorted) ==
    LET on == \E i \in 1..Len(activeSections(block, sorted)) :
                  activeSections(block, sorted)[i].id = "interactions"
        target == FieldValue(block, "interactions", "target_subject")
        action == FieldValue(block, "interactions", "interaction_type")
    IN  IF on /\ ~Falsy(target) /\ target # "None"
        THEN " [INTERACTION: " \o subjectName(block) \o " is " \o action \o " "
             \o target \o "]"
        ELSE ""

\* the label of a clause header
ClauseLabel(block) ==
    IF ~Falsy(block.customLabel) /\ block.customLabel # "Subject"
    THEN "\"" \o block.customLabel \o "\""
    ELSE subjectName(block)

ClauseHeader(block) == "[" \o block.type \o " - " \o ClauseLabel(block) \o "]: "

\* what the forEach callback pushes for one active block
BlockClause(block, sorted, aspectRatio) ==
    IF Len(blockDescParts(block, sorted, aspectRatio)) > 0 \/ interactions(block, sorted) # ""
    THEN <<ClauseHeader(block)
           \o Join(blockDescParts(block, sorted, aspectRatio), " | ")
           \o interactions(block, sorted)>>
    ELSE <<>>

RECURSIVE ClausesFrom(_, _, _, _)
ClausesFrom(list, i, sorted, aspectRatio) ==
    IF i > Len(list) THEN <<>>
    ELSE (IF list[i].isActive THEN BlockClause(list[i], sorted, aspectRatio) ELSE <<>>)
         \o ClausesFrom(list, i + 1, sorted, aspectRatio)

StylePrefix(style, use) ==
    IF use /\ ~Falsy(style) THEN <<"Style: " \o style \o ".">> ELSE <<>>

\* promptParts at the return statement
promptParts(localBlocks, style, use, globals, aspectRatio) ==
    LET blocksToProcess == MergedBlocks(localBlocks, use, globals)
        sorted == sortedBlocks(blocksToProcess)
    IN  StylePrefix(style, use)
        \o (IF isTransparencyEnabled(blocksToProcess) THEN <<IsolationDirective>> ELSE <<>>)
        \o ClausesFrom(sorted, 1, sorted, aspectRatio)

\* the local array holds the blocks in sorted order, as if blocksToProcess
\* were the array itself
LocalArrayAfterSortInPlace(localBlocks, use, globals) ==
    sortedBlocks(localBlocks)

\* the content of the localBlocks array after the call: blocksToProcess is a
\* new array ([...localBlocks] or [...activeGlobals, ...localBlocks]), and
\* sort() reorders only that array
LocalArrayAfter(localBlocks, use, globals) == localBlocks

\* the content of the globalBlocks array after the call: filter() returns a
\* new array
GlobalArrayAfter(localBlocks, use, globals) == globals

constructPromptFromBlocks(localBlocks, style, use, globals, aspectRatio) ==
    Join(promptParts(localBlocks, style, use, globals, aspectRatio), ". ")

(***************************************************************************)
(* geminiService.ts: generateImageFromBlocks, up to the request it sends.  *)
(* request holds the structured prompt, the background description of an   *)
(* edit request and the reference images attached, each with the ids of    *)
(* the blocks it was taken from.                                           *)
(***************************************************************************)
NoRequest ==
    [built |-> FALSE, structuredPrompt |-> "", backgroundDescription |-> Undefined,
     referenceImages |-> <<>>, promptBlocks |-> {}, backgroundBlock |-> Undefined,
     referenceBlocks |-> {}]

\* useBaseStyle ? [...globalBlocks, ...blocks] : blocks
activeBlocks(localBlocks, use, globals) ==
    IF use THEN globals \o localBlocks ELSE localBlocks

\* v || ''
OrEmpty(v) == IF Falsy(v) THEN "" ELSE v

\* the position in activeBlocks of bgBlock, 0 when find returns undefined
bgBlock(list) == FindActiveOfType(list, BACKGROUND)

backgroundDescription(list) ==
    IF bgBlock(list) = 0 THEN "Background as defined."
    ELSE LET bg == list[bgBlock(list)]
             env == OrEmpty(FieldValue(bg, "setting", "environment"))
             type == OrEmpty(FieldValue(bg, "setting", "type"))
             time == OrEmpty(FieldValue(bg, "setting", "time"))
         IN  type \o " " \o env \o " at " \o time

\* block.isActive && block.referenceImage
HasReference(block) == block.isActive /\ ~Falsy(block.referenceImage)

\* the blocks whose clause is part of the structured prompt
ClauseBlocks(localBlocks, use, globals, ratio) ==
    LET sorted == sortedBlocks(MergedBlocks(localBlocks, use, globals))
    IN  {sorted[i].id : i \in {j \in 1..Len(sorted) :
            sorted[j].isActive /\ BlockClause(sorted[j], sorted, ratio) # <<>>}}

\* what generateImageFromBlocks puts into the request
RequestOf(localBlocks, ratio, style, previousImageBase64, use, globals) ==
    LET list == activeBlocks(localBlocks, use, globals)
        withRef == SelectSeq(list, HasReference)
        isEdit == ~Falsy(previousImageBase64)
    IN  [built |-> TRUE,
         structuredPrompt |-> constructPromptFromBlocks(localBlocks, style, use, globals, ratio),
         backgroundDescription |-> IF isEdit THEN backgroundDescription(list) ELSE Undefined,
         referenceImages |-> [i \in 1..Len(withRef) |-> withRef[i].referenceImage],
         promptBlocks |-> ClauseBlocks(localBlocks, use, globals, ratio),
         backgroundBlock |-> IF isEdit /\ bgBlock(list) # 0 THEN list[bgBlock(list)].id
                             ELSE Undefined,
         referenceBlocks |-> {withRef[i].id : i \in 1..Len(withRef)}]

\* handleGenerate's call generateImageFromBlocks(blocks, seed, aspectRatio,
\* baseStyle, generatedImage, useBaseStyle, globalBlocks) with an API key set
generateImageFromBlocks ==
    /\ request' = RequestOf(blocks, fileAspectRatio, baseStyle, generatedImage,
                            useBaseStyle, globalBlocks)
    /\ blocks' = LocalArrayAfter(blocks, useBaseStyle, globalBlocks)
    /\ globalBlocks' = GlobalArrayAfter(blocks, useBaseStyle, globalBlocks)
    /\ UNCHANGED <<selectedBlockId, toastMessage, baseStyle, useBaseStyle, now, rnd,
                   promptVars, labsVars, sessionVars, debounceVars, serviceVars,
                   fileAspectRatio, canvasVars>>

\* the aspect ratio select of the Editor
setAspectRatio(value) ==
    /\ fileAspectRatio' = value
    /\ UNCHANGED <<editorVars, promptVars, labsVars, sessionVars, debounceVars,
                   serviceVars, request, canvasVars>>

InitRequestIdle ==
    /\ fileAspectRatio = "1:1"
    /\ request = NoRequest

(***************************************************************************)
(* Labs.tsx: text overlays and the pointer handlers of LabsCanvas.         *)
(* An overlay is [id, text, x, y, size]; colour, font, shadow and          *)
(* background do not enter the handlers, letterSpacing is 0.  The canvas   *)
(* is 2000 x 2000 pixels shown in a 400 x 400 element at the origin, and   *)
(* pointer events fall on multiples of 4 CSS pixels, so that the percent   *)
(* and size arithmetic of the handlers is exact on integers.               *)
(***************************************************************************)
\* useState<TextOverlay | null>(null): the null overlay, and the null hit
NoOverlay == [id |-> Null]
NoHit == [type |-> "none", id |-> Null, overlay |-> NoOverlay]

canvas == [width |-> 2000, height |-> 2000]
rect == [left |-> 0, top |-> 0, width |-> 400, height |-> 400]

\* the pointer positions (clientX, clientY) the events carry: the centre of
\* a new overlay, three points on a way to the lower right (the second one
\* on the resize handle of a new overlay), the empty top left corner, and a
\* point off the canvas that a captured pointer can reach
PointerEvents ==
    { [x |-> 200, y |-> 200], [x |-> 212, y |-> 208], [x |-> 228, y |-> 216],
      [x |-> 240, y |-> 220], [x |-> 0, y |-> 0], [x |-> 1300, y |-> 1300] }

\* a pointer-down reaches the canvas only inside its element
OnCanvas(e) ==
    /\ e.x >= rect.left /\ e.x <= rect.left + rect.width
    /\ e.y >= rect.top /\ e.y <= rect.top + rect.height

Max(a, b) == IF a >= b THEN a ELSE b
Min(a, b) == IF a <= b THEN a ELSE b

createDefaultText(text) ==
    [id |-> "text-" \o ToString(now) \o "-r" \o ToString(rnd),
     text |-> text, x |-> 50, y |-> 50, size |-> 40]

\* at most MaxOverlays overlays are ever created
addTextOverlay ==
    /\ rnd < MaxOverlays
    /\ overlays' = Append(overlays, createDefaultText("Text"))
    /\ selectedLabsLayerId' = createDefaultText("Text").id
    /\ rnd' = rnd + 1
    /\ UNCHANGED <<blocks, globalBlocks, selectedBlockId, toastMessage, baseStyle,
                   useBaseStyle, now, promptVars, restVars, dragMode, dragStart,
                   initialOverlayState, pointer, pressed, moves>>

removeTextOverlay(id) ==
    /\ LET Other(o) == o.id # id IN overlays' = SelectSeq(overlays, Other)
    /\ selectedLabsLayerId' = IF selectedLabsLayerId = id THEN Null ELSE selectedLabsLayerId
    /\ UNCHANGED <<editorVars, promptVars, restVars, dragMode, dragStart, initialOverlayState,
                   pointer, pressed, moves>>

\* LabsControls: the built-in presets Normal and Meme, as the overlays of their
\* states; the ids of the Meme texts are made once, when the module loads
PRESETS ==
    { [id |-> "default", overlays |-> <<>>],
      [id |-> "meme",
       overlays |-> << [id |-> "text-load-r1", text |-> "TOP TEXT",
                        x |-> 50, y |-> 10, size |-> 60],
                       [id |-> "text-load-r2", text |-> "BOTTOM TEXT",
                        x |-> 50, y |-> 90, size |-> 60] >>] }

\* LabsControls.applyPreset: onChange(JSON.parse(JSON.stringify(preset.state)))
applyPreset(preset) ==
    /\ overlays' = preset.overlays
    /\ UNCHANGED <<editorVars, promptVars, restVars, selectedLabsLayerId, dragMode,
                   dragStart, initialOverlayState, pointer, pressed, moves>>

\* Editor.handleResetLabs
handleResetLabs ==
    /\ overlays' = <<>>
    /\ selectedLabsLayerId' = Null
    /\ UNCHANGED <<editorVars, promptVars, restVars, dragMode, dragStart,
                   initialOverlayState, pointer, pressed, moves>>

\* ctx.measureText(text).width: every character advances half the font size
MeasureText(text, fontSize) == (Len(text) * fontSize) \div 2

\* the hit test of one overlay; lengths are in half canvas pixels (doubled)
\* so that the halves of the text box stay integers
HitOf(o, e, selectedId) ==
    LET scaleX == canvas.width \div rect.width
        scaleY == canvas.height \div rect.height
        clickX == (e.x - rect.left) * scaleX
        clickY == (e.y - rect.top) * scaleY
        scaleFactor == canvas.width \div 1000
        fontSize == (o.size * scaleFactor * 3) \div 2
        textWidth == MeasureText(o.text, fontSize)
        textHeight == fontSize
        visualPadding == 10 * scaleFactor
        textX == (o.x * canvas.width) \div 100
        textY == (o.y * canvas.height) \div 100
        bgX2 == 2 * textX - textWidth - 2 * visualPadding
        bgY2 == 2 * textY - textHeight - 2 * visualPadding
        bgW == textWidth + visualPadding * 2
        bgH == textHeight + visualPadding * 2
        handleSize == 20 * scaleFactor
        handleX2 == bgX2 + 2 * bgW + 10
        handleY2 == bgY2 + 2 * bgH + 10
        dx2 == 2 * clickX - handleX2
        dy2 == 2 * clickY - handleY2
    IN  IF o.id = selectedId /\ dx2 * dx2 + dy2 * dy2 < (2 * handleSize) * (2 * handleSize)
        THEN "resize"
        ELSE IF /\ 2 * clickX >= bgX2 - 10 /\ 2 * clickX <= bgX2 + 2 * bgW + 10
                /\ 2 * clickY >= bgY2 - 10 /\ 2 * clickY <= bgY2 + 2 * bgH + 10
        THEN "move"
        ELSE "none"

\* getHitInfo: the topmost (last) overlay that is hit, or NoHit
getHitInfo(e, selectedId) ==
    LET hits == {i \in 1..Len(overlays) : HitOf(overlays[i], e, selectedId) # "none"}
    IN  IF hits = {} THEN NoHit
        ELSE LET i == CHOOSE h \in hits : \A k \in hits : k <= h
             IN  [type |-> HitOf(overlays[i], e, selectedId), id |-> overlays[i].id,
                  overlay |-> overlays[i]]

handlePointerDown(e) ==
    /\ moves.all < MaxEvents
    /\ LET hit == getHitInfo(e, selectedLabsLayerId)
       IN  IF hit.type # "none"
           THEN /\ selectedLabsLayerId' = hit.id
                /\ dragMode' = hit.type
                /\ dragStart' = [x |-> e.x, y |-> e.y]
                /\ initialOverlayState' = hit.overlay
           ELSE /\ selectedLabsLayerId' = Null
                /\ dragMode' = "none"
                /\ UNCHANGED <<dragStart, initialOverlayState>>
    /\ pointer' = e
    /\ pressed' = [x |-> e.x, y |-> e.y, overlays |-> overlays,
                 selected |-> selectedLabsLayerId]
    /\ moves' = [drag |-> 0, all |-> moves.all + 1, last |-> "down"]
    /\ UNCHANGED <<editorVars, promptVars, restVars, overlays>>

Clamp(lo, hi, v) == Max(lo, Min(hi, v))

\* an overlay moved by the displacement added to its own current position
MovedFromCurrent(o, initial, deltaPctX, deltaPctY) ==
    [o EXCEPT !.x = Clamp(0, 100, o.x + deltaPctX),
              !.y = Clamp(0, 100, o.y + deltaPctY)]

\* { ...o, x: newX, y: newY } of the move branch
Moved(o, initial, deltaPctX, deltaPctY) ==
    [o EXCEPT !.x = Clamp(0, 100, initial.x + deltaPctX),
              !.y = Clamp(0, 100, initial.y + deltaPctY)]

\* an overlay resized by the displacement added to its own current size
ResizedFromCurrent(o, initial, deltaX, deltaY) ==
    [o EXCEPT !.size = Clamp(10, 300, o.size + ((deltaX + deltaY) \div 4))]

\* { ...o, size: newSize } of the resize branch: scaleDelta * 0.5 is a
\* quarter of deltaX + deltaY
Resized(o, initial, deltaX, deltaY) ==
    [o EXCEPT !.size = Clamp(10, 300, initial.size + ((deltaX + deltaY) \div 4))]

\* a pointer-move that is ignored only while no overlay was ever grabbed
NotDraggingNoOverlayOnly == initialOverlayState = NoOverlay

\* if (dragMode === 'none' || !initialOverlayState ...) return
NotDragging == dragMode = "none" \/ initialOverlayState = NoOverlay

handlePointerMove(e) ==
    /\ moves.all < MaxEvents
    /\ pointer' = e
    /\ moves' = [drag |-> moves.drag + 1, all |-> moves.all + 1, last |-> "move"]
    /\ IF NotDragging
       THEN UNCHANGED overlays
       ELSE LET deltaX == e.x - dragStart.x
                deltaY == e.y - dragStart.y
                deltaPctX == (deltaX * 100) \div rect.width
                deltaPctY == (deltaY * 100) \div rect.height
                Upd(o) == IF o.id # initialOverlayState.id THEN o
                          ELSE IF dragMode = "move"
                               THEN Moved(o, initialOverlayState, deltaPctX, deltaPctY)
                               ELSE Resized(o, initialOverlayState, deltaX, deltaY)
            IN  overlays' = MapSeq(overlays, Upd)
    /\ UNCHANGED <<editorVars, promptVars, restVars, selectedLabsLayerId, dragMode, dragStart,
                   initialOverlayState, pressed>>

\* onPointerUp
handlePointerUp ==
    /\ moves.all < MaxEvents
    /\ dragMode' = "none"
    /\ moves' = [moves EXCEPT !.all = moves.all + 1, !.last = "up"]
    /\ UNCHANGED <<editorVars, promptVars, restVars, overlays, selectedLabsLayerId, dragStart,
                   initialOverlayState, pointer, pressed>>

(***************************************************************************)
(* BlockControls.tsx: the edits of a block's fields and section toggles,   *)
(* and Editor.updateBlock with the reciprocal update of an interaction's   *)
(* target                                                                  *)
(***************************************************************************)
\* block.sections[sectionId] || { fields: {} }
SectionState(block, sectionId) ==
    IF sectionId \in DOMAIN block.sections THEN block.sections[sectionId]
    ELSE [fields |-> [f \in {} |-> Undefined]]

\* an updateField that builds the sections object from the edited section alone
LoneField(block, sectionId, fieldId, value) ==
    LET sectionState == SectionState(block, sectionId)
    IN  [block EXCEPT !.sections =
            With([s \in {} |-> Undefined], sectionId,
                 With(sectionState, "fields", With(sectionState.fields, fieldId, value)))]

\* BlockControls.updateField: the block it hands to onChange
UpdatedField(block, sectionId, fieldId, value) ==
    LET sectionState == SectionState(block, sectionId)
    IN  [block EXCEPT !.sections =
            With(block.sections, sectionId,
                 With(sectionState, "fields", With(sectionState.fields, fieldId, value)))]

\* BlockControls.toggleSection: the block it hands to onChange
ToggledSection(block, sectionId, enabled) ==
    [block EXCEPT !.sections =
        With(block.sections, sectionId, With(SectionState(block, sectionId), "enabled", enabled))]

\* the options of the 'With Whom?' select of a Subject block
TargetOptions(block, allBlocks) ==
    {"None"} \cup {getSmartLabel(allBlocks[i]) : i \in
                     {j \in 1..Len(allBlocks) : /\ allBlocks[j].type = SUBJECT
                                                /\ allBlocks[j].id # block.id
                                                /\ allBlocks[j].isActive}}

\* b.customLabel || BLOCK_DEFINITIONS[b.type].label
LabelOrDefault(b) ==
    IF Falsy(b.customLabel) THEN BLOCK_DEFINITIONS[b.type].label ELSE b.customLabel

\* the target block with its interactions pointing at the updated block
UpdatedTarget(targetBlock, updated, action) ==
    LET old == IF "interactions" \in DOMAIN targetBlock.sections
               THEN targetBlock.sections["interactions"]
               ELSE [f \in {} |-> Undefined]
        oldFields == IF "fields" \in DOMAIN old THEN old.fields ELSE [f \in {} |-> Undefined]
    IN  [targetBlock EXCEPT !.sections =
            With(targetBlock.sections, "interactions",
                 With(With(old, "enabled", JsTrue), "fields",
                      With(With(oldFields, "target_subject", updated.customLabel),
                           "interaction_type", action)))]

\* updateBlock for a local block: the list it passes to setBlocks
ReciprocalList(list, updated) ==
    LET Swap(b) == IF b.id = updated.id THEN updated ELSE b
        nextBlocks == MapSeq(list, Swap)
        targetName == FieldValue(updated, "interactions", "target_subject")
        action == FieldValue(updated, "interactions", "interaction_type")
        isEnabled == IF "interactions" \in DOMAIN updated.sections
                     THEN updated.sections["interactions"].enabled ELSE Undefined
        targetBlockIndex == FindIndex(nextBlocks, LAMBDA b : LabelOrDefault(b) = targetName)
    IN  IF /\ updated.type = SUBJECT
           /\ ~Falsy(isEnabled) /\ ~Falsy(targetName) /\ targetName # "None"
           /\ targetBlockIndex > 0
        THEN LET targetBlock == nextBlocks[targetBlockIndex]
                 currentReciprocal == FieldValue(targetBlock, "interactions", "target_subject")
                 targetEnabled == IF "interactions" \in DOMAIN targetBlock.sections
                                  THEN targetBlock.sections["interactions"].enabled
                                  ELSE Undefined
             IN  IF currentReciprocal # updated.customLabel \/ Falsy(targetEnabled)
                 THEN [nextBlocks EXCEPT ![targetBlockIndex] =
                          UpdatedTarget(targetBlock, updated, action)]
                 ELSE nextBlocks
        ELSE nextBlocks

updateBlock(updated) ==
    /\ IF IsGlobalId(updated.id)
       THEN /\ globalBlocks' = updateGlobalBlock(globalBlocks, updated)
            /\ UNCHANGED blocks
       ELSE /\ blocks' = ReciprocalList(blocks, updated)
            /\ UNCHANGED globalBlocks
    /\ UNCHANGED <<selectedBlockId, toastMessage, baseStyle, useBaseStyle, now, rnd>>

\* effectiveBlocks.find(b => b.id === selectedBlockId), when there is one
HasSelectedBlock == HasId(effectiveBlocks, selectedBlockId)
selectedBlock ==
    effectiveBlocks[FindIndex(effectiveBlocks, LAMBDA b : b.id = selectedBlockId)]

\* the fields of a toggleable section take no input while it is switched off
InteractionsOpen(block) ==
    /\ block.type = SUBJECT
    /\ SectionState(block, "interactions").enabled # JsFalse

\* BlockControls: isDisabled of a rendered section
isDisabled(block, section) ==
    section.toggleable /\ SectionState(block, section.id).enabled = JsFalse

\* a control of a rendered, enabled section of the selected block is changed
fieldChanged(secDef, fieldDef, value) ==
    /\ HasSelectedBlock
    /\ secDef \in Range(visibleSections(selectedBlock, effectiveBlocks))
    /\ ~isDisabled(selectedBlock, secDef)
    /\ fieldDef \in Range(secDef.fields)
    /\ updateBlock(UpdatedField(selectedBlock, secDef.id, fieldDef.id, value))

\* the switch in the header of a rendered toggleable section is flipped
sectionToggled(secDef, enabled) ==
    /\ HasSelectedBlock
    /\ secDef \in Range(visibleSections(selectedBlock, effectiveBlocks))
    /\ secDef.toggleable
    /\ updateBlock(ToggledSection(selectedBlock, secDef.id, enabled))

(***************************************************************************)
(* The change summary of the history (Editor, getChangeSummary)            *)
(***************************************************************************)
\* a list without the repetitions of its elements, first occurrences kept:
\* the insertion order of a Set<string>
RECURSIVE Dedupe(_)
Dedupe(list) ==
    IF list = <<>> THEN <<>>
    ELSE LET front == Dedupe(SubSeq(list, 1, Len(list) - 1))
             last == list[Len(list)]
         IN  IF \E i \in 1..Len(front) : front[i] = last THEN front
             ELSE Append(front, last)

\* JSON.stringify(a) !== JSON.stringify(b) for two values of the model
JsonDiffers(a, b) == a # b

\* the block of the given id a Map built from the list holds: the last one
MapGet(list, id) ==
    list[CHOOSE i \in 1..Len(list) :
            list[i].id = id /\ \A k \in (i + 1)..Len(list) : list[k].id # id]

\* the blocks of the model carry no customValues, so customChanged is false
BlockModified(b, old) ==
    \/ JsonDiffers(b.sections, old.sections)
    \/ b.isActive # old.isActive
    \/ b.customLabel # old.customLabel

getChangeSummary(oldBlocks, newBlocks) ==
    LET AddedOne(b) == ~HasId(oldBlocks, b.id)
        RemovedOne(b) == ~HasId(newBlocks, b.id)
        ModifiedOne(b) == HasId(oldBlocks, b.id) /\ BlockModified(b, MapGet(oldBlocks, b.id))
        AddedText(b) == "Added " \o getSmartLabel(b)
        RemovedText(b) == "Removed " \o getSmartLabel(b)
        ModifiedText(b) == "Modified " \o getSmartLabel(b)
        changeList == Dedupe(MapSeq(SelectSeq(newBlocks, AddedOne), AddedText)
                              \o MapSeq(SelectSeq(oldBlocks, RemovedOne), RemovedText)
                              \o MapSeq(SelectSeq(newBlocks, ModifiedOne), ModifiedText))
    IN  IF Len(changeList) = 0 THEN "Regenerated"
        ELSE IF Len(changeList) = 1 THEN changeList[1]
        ELSE IF Len(changeList) = 2 THEN changeList[1] \o ", " \o changeList[2]
        ELSE ToString(Len(changeList)) \o " Changes (e.g. " \o changeList[1] \o ")"

(***************************************************************************)
(* The session of the open file (Editor): history, Generate, Quick Edit,   *)
(* Rebuild Blocks, the Labs AI action and Labs Apply.                      *)
(*                                                                         *)
(* A handler that awaits runs in steps: the step up to an await puts a     *)
(* record in calls that holds the values its closure captured (the blocks, *)
(* the image, the newest history entry's blocks and the input text of the  *)
(* render in which the handler was started); the step after the await      *)
(* takes the record out and goes on with those values.  Objects have       *)
(* identities: blockRefs holds, for each block of the live list, the       *)
(* identity of the block object and of its sections object, and every      *)
(* history entry holds the identities of the objects of its own blocks.    *)
(* seed, aspectRatio and the filters of labsState are not part of the      *)
(* model.  A call or a timer takes time: the clock has advanced when it    *)
(* settles.                                                                *)
(***************************************************************************)
\* the identities of k new block objects with their sections objects
FreshRefs(k, base) ==
    [i \in 1..k |-> [obj |-> base + 2 * i - 1, sections |-> base + 2 * i]]

\* a list handed over as it is: the same objects
SameObjects(list, refs, base) == refs

\* JSON.parse(JSON.stringify(list)): the objects of the result are all new
JsonCopyRefs(list, refs, base) == FreshRefs(Len(list), base)

JsonCopyList(list) == [i \in 1..Len(list) |-> JsonCopy(list[i])]

\* what a handler's closure holds of the render it was started in
Closure ==
    [blocks |-> blocks, refs |-> blockRefs, image |-> generatedImage,
     prev |-> IF Len(history) > 0 THEN history[1].blocks ELSE <<>>,
     overlays |-> overlays, instruction |-> quickEditInstruction, idea |-> roughIdea]

\* Date.now() in the step that follows an await or a timer
Arrival == now + 1

\* the entry addToHistory builds from the values of closure c; taken records
\* what it read, for the properties
NewEntry(action, c) ==
    [id |-> "h-" \o ToString(Arrival),
     action |-> action,
     blocks |-> JsonCopyList(c.blocks),
     refs |-> JsonCopyRefs(c.blocks, c.refs, nextRef),
     previewImage |-> IF c.image = Null THEN Undefined ELSE c.image,
     overlays |-> c.overlays,
     taken |-> [blocks |-> c.blocks, refs |-> c.refs]]

\* a list with the new entry put last
PutLast(newEntry, prev) == Append(prev, newEntry)

\* [newEntry, ...prev]
PutFirst(newEntry, prev) == <<newEntry>> \o prev

\* setHistory(prev => [newEntry, ...prev])
addToHistory(action, c) ==
    /\ history' = PutFirst(NewEntry(action, c), history)
    /\ nextRef' = nextRef + 2 * Len(c.blocks)

\* the blocks the AI service returns, as parseRawBlocksToState builds them
AiBlocks ==
    << [createDefaultBlockState(SUBJECT) EXCEPT
          !.sections["core"].fields["role"] = "Knight"] >>

StartCall(kind, c) ==
    /\ calls' = calls \cup {[kind |-> kind, n |-> issued.calls + 1, c |-> c]}
    /\ issued' = [issued EXCEPT !.calls = issued.calls + 1]

\* what the session handlers never touch
SessionFrame == UNCHANGED <<globalBlocks, baseStyle, useBaseStyle, promptVars, dragMode,
                            dragStart, initialOverlayState, pointer, pressed, moves,
                            debounceVars, serviceVars, requestVars, canvasVars>>

\* the objects of the list toggleBlockActive passes to setBlocks: a block it
\* rebuilds with a spread is a new object that keeps the sections object
ToggledRefs(list, refs, block, base) ==
    [j \in 1..Len(list) |->
        IF ToggledList(list, block)[j] # list[j]
        THEN [obj |-> base + j, sections |-> refs[j].sections]
        ELSE refs[j]]

\* the user toggles a local block of the open file
toggleLocalBlock(block) ==
    /\ issued.edits < MaxEdits
    /\ toggleBlockActive(block)
    /\ blockRefs' = ToggledRefs(blocks, blockRefs, block, nextRef)
    /\ nextRef' = nextRef + Len(blocks)
    /\ issued' = [issued EXCEPT !.edits = issued.edits + 1]
    /\ SessionFrame
    /\ UNCHANGED <<overlays, selectedLabsLayerId, history, generatedImage, labsBaseImage,
                   isGenerating, isRefining, isRebuilding, quickEditInstruction,
                   roughIdea, calls>>

\* the user types into the Quick Edit input
setQuickEditInstruction(text) ==
    /\ quickEditInstruction # text
    /\ quickEditInstruction' = text
    /\ SessionFrame
    /\ UNCHANGED <<blocks, selectedBlockId, toastMessage, now, rnd, overlays,
                   selectedLabsLayerId, history, blockRefs, nextRef, generatedImage,
                   labsBaseImage, isGenerating, isRefining, isRebuilding, roughIdea,
                   calls, issued>>

\* handleGenerate up to its await; the button is disabled while isGenerating
handleGenerate ==
    /\ ~isGenerating
    /\ isGenerating' = TRUE
    /\ StartCall("generate", Closure)
    /\ SessionFrame
    /\ UNCHANGED <<blocks, selectedBlockId, toastMessage, now, rnd, overlays,
                   selectedLabsLayerId, history, blockRefs, nextRef, generatedImage,
                   labsBaseImage, isRefining, isRebuilding, quickEditInstruction,
                   roughIdea>>

\* the image a call returns
ImageOf(call) == "img-" \o ToString(call.n)

\* handleGenerate after generateImageFromBlocks has settled: with an image,
\* with no image, or with an error (processTransparency, which runs in the
\* browser, is taken as part of this step)
generateSettled(call, outcome) ==
    /\ now' = now + 1
    /\ call.kind = "generate"
    /\ calls' = calls \ {call}
    /\ isGenerating' = FALSE
    /\ IF outcome = "image"
       THEN /\ generatedImage' = ImageOf(call)
            /\ labsBaseImage' = ImageOf(call)
            /\ addToHistory(getChangeSummary(call.c.prev, call.c.blocks), call.c)
            /\ UNCHANGED toastMessage
       ELSE /\ toastMessage' = IF outcome = "throw" THEN "Generation failed." ELSE toastMessage
            /\ UNCHANGED <<generatedImage, labsBaseImage, history, nextRef>>
    /\ SessionFrame
    /\ UNCHANGED <<blocks, selectedBlockId, rnd, overlays, selectedLabsLayerId,
                   blockRefs, isRefining, isRebuilding, quickEditInstruction, roughIdea,
                   issued>>

\* handleQuickEdit up to its first await; the Apply button is disabled while
\* isRefining or with no text, the Enter key only returns with no text
handleQuickEdit(byKey) ==
    /\ quickEditInstruction # ""
    /\ byKey \/ ~isRefining
    /\ isRefining' = TRUE
    /\ StartCall("refine", Closure)
    /\ SessionFrame
    /\ UNCHANGED <<blocks, selectedBlockId, toastMessage, now, rnd, overlays,
                   selectedLabsLayerId, history, blockRefs, nextRef, generatedImage,
                   labsBaseImage, isGenerating, isRebuilding, quickEditInstruction,
                   roughIdea>>

\* handleQuickEdit after refineBlocks has settled: the new blocks are set and
\* generateImageFromBlocks is called, or the error is shown
refineSettled(call, outcome) ==
    /\ now' = now + 1
    /\ call.kind = "refine"
    /\ IF outcome = "blocks"
       THEN /\ blocks' = AiBlocks
            /\ blockRefs' = FreshRefs(Len(AiBlocks), nextRef)
            /\ nextRef' = nextRef + 2 * Len(AiBlocks)
            /\ rnd' = rnd + 1
            /\ quickEditInstruction' = ""
            /\ isGenerating' = TRUE
            /\ calls' = (calls \ {call}) \cup {[call EXCEPT !.kind = "editGenerate"]}
            /\ UNCHANGED <<toastMessage, isRefining>>
       ELSE /\ toastMessage' = "Refinement Failed: "
            /\ isRefining' = FALSE
            /\ isGenerating' = FALSE
            /\ calls' = calls \ {call}
            /\ UNCHANGED <<blocks, blockRefs, nextRef, rnd, quickEditInstruction>>
    /\ SessionFrame
    /\ UNCHANGED <<selectedBlockId, overlays, selectedLabsLayerId, history,
                   generatedImage, labsBaseImage, isRebuilding, roughIdea, issued>>

\* handleQuickEdit after generateImageFromBlocks has settled
editGenerateSettled(call, outcome) ==
    /\ now' = now + 1
    /\ call.kind = "editGenerate"
    /\ calls' = calls \ {call}
    /\ isRefining' = FALSE
    /\ isGenerating' = FALSE
    /\ IF outcome = "image"
       THEN /\ generatedImage' = ImageOf(call)
            /\ labsBaseImage' = ImageOf(call)
            /\ addToHistory("Edit: " \o call.c.instruction, call.c)
            /\ UNCHANGED toastMessage
       ELSE /\ toastMessage' = IF outcome = "throw" THEN "Refinement Failed: "
                               ELSE toastMessage
            /\ UNCHANGED <<generatedImage, labsBaseImage, history, nextRef>>
    /\ SessionFrame
    /\ UNCHANGED <<blocks, selectedBlockId, rnd, overlays, selectedLabsLayerId,
                   blockRefs, isRebuilding, quickEditInstruction, roughIdea, issued>>

\* handleRebuildBlocks up to its first await; the button is disabled while
\* isRebuilding or with no concept text
handleRebuildBlocks ==
    /\ roughIdea # ""
    /\ ~isRebuilding
    /\ isRebuilding' = TRUE
    /\ StartCall("analyze", Closure)
    /\ SessionFrame
    /\ UNCHANGED <<blocks, selectedBlockId, toastMessage, now, rnd, overlays,
                   selectedLabsLayerId, history, blockRefs, nextRef, generatedImage,
                   labsBaseImage, isGenerating, isRefining, quickEditInstruction,
                   roughIdea>>

\* handleRebuildBlocks after analyzeReference has settled
analyzeSettled(call, outcome) ==
    /\ now' = now + 1
    /\ call.kind = "analyze"
    /\ IF outcome = "blocks"
       THEN /\ blocks' = AiBlocks
            /\ blockRefs' = FreshRefs(Len(AiBlocks), nextRef)
            /\ nextRef' = nextRef + 2 * Len(AiBlocks)
            /\ rnd' = rnd + 1
            /\ selectedBlockId' = AiBlocks[1].id
            /\ calls' = (calls \ {call}) \cup {[call EXCEPT !.kind = "suggest"]}
            /\ UNCHANGED <<toastMessage, isRebuilding>>
       ELSE /\ toastMessage' = "Error rebuilding context: "
            /\ isRebuilding' = FALSE
            /\ calls' = calls \ {call}
            /\ UNCHANGED <<blocks, blockRefs, nextRef, rnd, selectedBlockId>>
    /\ SessionFrame
    /\ UNCHANGED <<overlays, selectedLabsLayerId, history, generatedImage,
                   labsBaseImage, isGenerating, isRefining, quickEditInstruction,
                   roughIdea, issued>>

\* handleRebuildBlocks after generateContextSuggestions has settled (it
\* returns an empty record on every error)
suggestSettled(call) ==
    /\ now' = now + 1
    /\ call.kind = "suggest"
    /\ calls' = calls \ {call}
    /\ toastMessage' = "Context & suggestions updated."
    /\ addToHistory("Rebuilt Blocks from Concept", call.c)
    /\ isRebuilding' = FALSE
    /\ SessionFrame
    /\ UNCHANGED <<blocks, selectedBlockId, rnd, overlays, selectedLabsLayerId,
                   blockRefs, generatedImage, labsBaseImage, isGenerating, isRefining,
                   quickEditInstruction, roughIdea, issued>>

\* handleLabsAIAction up to its await; its two buttons are never disabled
handleLabsAIAction ==
    /\ labsBaseImage # Null
    /\ isGenerating' = TRUE
    /\ toastMessage' = "Processing: "
    /\ StartCall("labsAI", Closure)
    /\ SessionFrame
    /\ UNCHANGED <<blocks, selectedBlockId, now, rnd, overlays, selectedLabsLayerId,
                   history, blockRefs, nextRef, generatedImage, labsBaseImage,
                   isRefining, isRebuilding, quickEditInstruction, roughIdea>>

\* handleLabsAIAction after editImage has settled
labsAISettled(call, outcome) ==
    /\ now' = now + 1
    /\ call.kind = "labsAI"
    /\ calls' = calls \ {call}
    /\ isGenerating' = FALSE
    /\ IF outcome = "image"
       THEN /\ labsBaseImage' = ImageOf(call)
            /\ toastMessage' = "Labs image updated. Apply to save to file."
       ELSE /\ toastMessage' = IF outcome = "throw" THEN "Error: "
                               ELSE "AI processing failed."
            /\ UNCHANGED labsBaseImage
    /\ SessionFrame
    /\ UNCHANGED <<blocks, selectedBlockId, rnd, overlays, selectedLabsLayerId,
                   history, blockRefs, nextRef, generatedImage, isRefining,
                   isRebuilding, quickEditInstruction, roughIdea, issued>>

\* handleApplyLabs up to its 50 ms timer
handleApplyLabs ==
    /\ labsBaseImage # Null
    /\ selectedLabsLayerId' = Null
    /\ StartCall("applyLabs", Closure)
    /\ SessionFrame
    /\ UNCHANGED <<blocks, selectedBlockId, toastMessage, now, rnd, overlays, history,
                   blockRefs, nextRef, generatedImage, labsBaseImage, isGenerating,
                   isRefining, isRebuilding, quickEditInstruction, roughIdea>>

\* the timer of handleApplyLabs fires: the canvas is captured, the Labs
\* controls are reset
\* LabsCanvas, the drawing effect: the selection rectangle and the resize handle
\* are drawn around the overlay whose id is selectedId
SelectionToDraw ==
    IF \E i \in 1..Len(overlays) : overlays[i].id = selectedLabsLayerId
    THEN selectedLabsLayerId ELSE Null

\* the drawing effect of LabsCanvas runs after a render that changed what it shows
drawCanvas ==
    /\ labsBaseImage # Null
    /\ canvasSelection # SelectionToDraw
    /\ canvasSelection' = SelectionToDraw
    /\ UNCHANGED <<editorVars, promptVars, labsVars, sessionVars, debounceVars,
                   serviceVars, requestVars>>

InitCanvasIdle == canvasSelection = Null

\* labsCanvasRef.current.toDataURL('image/png'): the pixels the canvas shows
toDataURL(n, shown) ==
    "labs-" \o ToString(n) \o (IF shown = Null THEN "" ELSE "+selection")

applyLabsFired(call) ==
    /\ now' = now + 1
    /\ call.kind = "applyLabs"
    /\ calls' = calls \ {call}
    /\ IF labsBaseImage # Null
       THEN /\ generatedImage' = toDataURL(call.n, canvasSelection)
            /\ labsBaseImage' = toDataURL(call.n, canvasSelection)
            /\ overlays' = <<>>
            /\ addToHistory("Labs Enhancement", call.c)
            /\ toastMessage' = "Image updated and Labs controls reset."
       ELSE UNCHANGED <<generatedImage, labsBaseImage, overlays, history, nextRef,
                        toastMessage>>
    /\ SessionFrame
    /\ UNCHANGED <<blocks, selectedBlockId, rnd, selectedLabsLayerId, blockRefs,
                   isGenerating, isRefining, isRebuilding, quickEditInstruction,
                   roughIdea, issued>>

\* restoreHistory of the i-th entry, the user confirming
restoreHistory(i) ==
    LET entry == history[i]
        restoredImage == IF Falsy(entry.previewImage) THEN Null ELSE entry.previewImage
    IN  /\ issued.edits < MaxEdits
        /\ blocks' = JsonCopyList(entry.blocks)
        /\ blockRefs' = JsonCopyRefs(entry.blocks, entry.refs, nextRef)
        /\ nextRef' = nextRef + 2 * Len(entry.blocks)
        /\ generatedImage' = restoredImage
        /\ labsBaseImage' = restoredImage
        /\ toastMessage' = "Restored previous version."
        /\ issued' = [issued EXCEPT !.edits = issued.edits + 1]
        /\ SessionFrame
        /\ overlays' = entry.overlays
        /\ UNCHANGED <<selectedBlockId, now, rnd, selectedLabsLayerId, history,
                       isGenerating, isRefining, isRebuilding, quickEditInstruction,
                       roughIdea, calls>>

(***************************************************************************)
(* The suggestion debounce (Editor, the effect on blocks, roughIdea,       *)
(* baseStyle and useBaseStyle).  Time passes in steps of one second, the   *)
(* delay of the timer is two of them, and a timer that is due fires before *)
(* more time passes.                                                       *)
(***************************************************************************)
DebounceSeconds == 2    \* setTimeout(..., 2000)
MinContextLength == 10  \* currentContextString.length > 10

\* `${v}` in a template literal
TemplateText(v) ==
    IF v = Undefined THEN "undefined"
    ELSE IF v = Null THEN "null"
    ELSE IF v = JsTrue THEN "true"
    ELSE IF v = JsFalse THEN "false"
    ELSE v

\* the part a block adds to the context, or none
RECURSIVE BlockParts(_)
BlockParts(list) ==
    IF list = <<>> THEN <<>>
    ELSE LET b == Head(list)
             cat == FieldValue(b, "core", "category")
             role == FieldValue(b, "core", "role")
             type == FieldValue(b, "setting", "type")
             env == FieldValue(b, "setting", "environment")
             part == IF ~b.isActive THEN <<>>
                     ELSE IF b.type = SUBJECT
                          THEN <<"Subject: " \o TemplateText(cat) \o " " \o TemplateText(role)>>
                     ELSE IF b.type = BACKGROUND
                          THEN <<"Setting: " \o TemplateText(type) \o " - " \o TemplateText(env)>>
                     ELSE <<>>
         IN  part \o BlockParts(Tail(list))

contextParts(idea, style, useStyle, list) ==
    (IF ~Falsy(idea) THEN <<"Core Idea: " \o idea>> ELSE <<>>)
    \o (IF ~Falsy(style) /\ useStyle THEN <<"Style: " \o style>> ELSE <<>>)
    \o BlockParts(list)

currentContextString(idea, style, useStyle, list) ==
    Join(contextParts(idea, style, useStyle, list), "|")

\* the context of the state the Editor is in
ContextNow == currentContextString(roughIdea, baseStyle, useBaseStyle, blocks)

\* clearTimeout(id): the timers that still pend (the id of a timer that has
\* fired clears nothing); KeepTimer is a clearTimeout that clears nothing
KeepTimer(pending, id) == pending
ClearTimeout(pending, id) == {t \in pending : t.id # id}

\* the effect's cleanup: if (debounceTimerRef.current) clearTimeout(...)
AfterCleanup(pending, ref) == IF ref # 0 THEN ClearTimeout(pending, ref) ELSE pending

\* the effect's body on the context c: the timers and the ref it leaves
EffectBody(pending, ref, last, c, id) ==
    IF c # last /\ Len(c) > MinContextLength
    THEN [timers |-> AfterCleanup(pending, ref)
                       \cup {[id |-> id, context |-> c, left |-> DebounceSeconds]},
          ref |-> id]
    ELSE [timers |-> pending, ref |-> ref]

\* a dependency of the effect has changed: React runs the cleanup of the
\* last run and then the effect on the new values
suggestEffect ==
    LET c == currentContextString(roughIdea', baseStyle', useBaseStyle', blocks')
        id == debounce.set + 1
        out == EffectBody(AfterCleanup(timers, debounceTimerRef), debounceTimerRef,
                          lastContextRef, c, id)
    IN  /\ debounce.changes < MaxChanges
        /\ timers' = out.timers
        /\ debounceTimerRef' = out.ref
        /\ debounce' = [set |-> IF out.ref = id THEN id ELSE debounce.set,
                        changes |-> debounce.changes + 1,
                        quiet |-> 0,
                        calls |-> 0]
        /\ UNCHANGED <<lastContextRef, asked, suggesting>>

\* what the handlers that change a dependency leave alone
DependencyFrame ==
    UNCHANGED <<promptVars, labsVars, serviceVars, requestVars, canvasVars, history, blockRefs, nextRef,
                generatedImage, labsBaseImage, isGenerating, isRefining, isRebuilding,
                quickEditInstruction, calls, issued>>

setRoughIdea(text) ==
    /\ roughIdea # text
    /\ roughIdea' = text
    /\ UNCHANGED editorVars

\* a second passes and no timer is due
SecondPasses ==
    /\ \A t \in timers : t.left > 0
    /\ timers # {} \/ debounce.quiet < DebounceSeconds
    /\ timers' = {[t EXCEPT !.left = t.left - 1] : t \in timers}
    /\ debounce' = [debounce EXCEPT !.quiet = IF debounce.quiet < DebounceSeconds
                                                THEN debounce.quiet + 1 ELSE debounce.quiet]
    /\ UNCHANGED <<editorVars, promptVars, labsVars, sessionVars, serviceVars, requestVars, canvasVars, debounceTimerRef,
                   lastContextRef, asked, suggesting>>

\* the timer's callback up to its await
timerFired(t) ==
    /\ t.left = 0
    /\ timers' = timers \ {t}
    /\ lastContextRef' = t.context
    /\ asked' = Append(asked, t.context)
    /\ suggesting' = suggesting \cup {t.id}
    /\ debounce' = [debounce EXCEPT !.calls = debounce.calls + 1]
    /\ UNCHANGED <<editorVars, promptVars, labsVars, sessionVars, serviceVars, requestVars, canvasVars, debounceTimerRef>>

\* generateContextSuggestions has settled; the suggestions it brought are
\* merged into dynamicSuggestions, which no dependency of the effect holds
suggestionsSettled(id) ==
    /\ id \in suggesting
    /\ suggesting' = suggesting \ {id}
    /\ UNCHANGED <<editorVars, promptVars, labsVars, sessionVars, serviceVars, requestVars, canvasVars, timers,
                   debounceTimerRef, lastContextRef, asked, debounce>>

\* no timer was ever set
InitDebounceIdle ==
    /\ timers = {}
    /\ debounceTimerRef = 0
    /\ lastContextRef = ""
    /\ asked = <<>>
    /\ suggesting = {}
    /\ debounce = [set |-> 0, changes |-> 0, quiet |-> 0, calls |-> 0]

(***************************************************************************)
(* geminiService.ts: parseRawBlocksToState, the blocks analyzeReference    *)
(* and refineBlocks build from the model's JSON.  A raw block is           *)
(* [id, type, sections]; a raw section is [enabled, fields]; a key the     *)
(* JSON leaves out is absent from the function, or holds Undefined.        *)
(***************************************************************************)
\* v ?? d
Coalesce(v, d) == IF v \in {Undefined, Null} THEN d ELSE v

\* rb.sections?.[secId]?.fields?.[fieldId]
RawField(rb, secId, fieldId) ==
    IF secId \in DOMAIN rb.sections
    THEN IF fieldId \in DOMAIN rb.sections[secId].fields
         THEN rb.sections[secId].fields[fieldId]
         ELSE Undefined
    ELSE Undefined

\* rb.sections?.[secId]?.enabled
RawEnabled(rb, secId) ==
    IF secId \in DOMAIN rb.sections THEN rb.sections[secId].enabled ELSE Undefined

\* safeSections of a raw block of a known type
SafeSections(rb) ==
    LET def == BLOCK_DEFINITIONS[rb.type]
    IN  [sid \in SectionIds(def) |->
            LET secDef == SecDefOf(def, sid)
            IN  [enabled |-> IF secDef.toggleable THEN Coalesce(RawEnabled(rb, sid), JsFalse)
                             ELSE Undefined,
                 fields |-> [f \in FieldIds(secDef) |->
                               Coalesce(RawField(rb, sid, f),
                                        FieldDefOf(secDef, f).defaultValue)]]]

\* the id of the block made from the raw block at index idx (from 0)
ParsedId(rb, idx, time) ==
    IF ~Falsy(rb.id) /\ StartsWith(rb.id, "b-") THEN rb.id
    ELSE "generated-" \o ToString(time) \o "-" \o ToString(idx)

RECURSIVE ParsedFrom(_, _, _)
ParsedFrom(rawBlocks, i, time) ==
    IF i > Len(rawBlocks) THEN <<>>
    ELSE LET rb == rawBlocks[i]
         IN  (IF rb.type \in BlockType
              THEN << [id |-> ParsedId(rb, i - 1, time),
                       type |-> rb.type,
                       isActive |-> TRUE,
                       customLabel |-> Undefined,
                       sections |-> SafeSections(rb),
                       referenceImage |-> Undefined] >>
              ELSE <<>>)
             \o ParsedFrom(rawBlocks, i + 1, time)

parseRawBlocksToState(rawBlocks, time) == ParsedFrom(rawBlocks, 1, time)

\* handleRebuildBlocks after analyzeReference has brought the raw blocks
analyzeImported(call, rawBlocks) ==
    LET newBlocks == parseRawBlocksToState(rawBlocks, Arrival)
    IN  /\ now' = now + 1
        /\ call.kind = "analyze"
        /\ blocks' = newBlocks
        /\ blockRefs' = FreshRefs(Len(newBlocks), nextRef)
        /\ nextRef' = nextRef + 2 * Len(newBlocks)
        /\ selectedBlockId' = IF Len(newBlocks) > 0 THEN newBlocks[1].id ELSE selectedBlockId
        /\ calls' = (calls \ {call}) \cup {[call EXCEPT !.kind = "suggest"]}
        /\ SessionFrame
        /\ UNCHANGED <<toastMessage, isRebuilding, rnd, overlays, selectedLabsLayerId,
                       history, generatedImage, labsBaseImage, isGenerating, isRefining,
                       quickEditInstruction, roughIdea, issued>>

(***************************************************************************)
(* geminiService.ts: getEffectiveApiKey and retryWithBackoff.  An error    *)
(* the operation throws is [status, message], status 0 when it has none.   *)
(***************************************************************************)
Retries == 3          \* retries: number = 3
InitialDelay == 2000  \* initialDelay: number = 2000

UpperCase == <<"A", "B", "C", "D", "E", "F", "G", "H", "I", "J", "K", "L", "M",
               "N", "O", "P", "Q", "R", "S", "T", "U", "V", "W", "X", "Y", "Z">>
LowerCase == <<"a", "b", "c", "d", "e", "f", "g", "h", "i", "j", "k", "l", "m",
               "n", "o", "p", "q", "r", "s", "t", "u", "v", "w", "x", "y", "z">>

\* string.toLowerCase()
RECURSIVE toLowerCase(_)
toLowerCase(str) ==
    IF Len(str) = 0 THEN ""
    ELSE LET ch == SubSeq(str, 1, 1)
             low == IF \E k \in 1..26 : UpperCase[k] = ch
                    THEN LowerCase[CHOOSE k \in 1..26 : UpperCase[k] = ch]
                    ELSE ch
         IN  low \o toLowerCase(SubSeq(str, 2, Len(str)))

\* string.includes(part)
includes(str, part) ==
    \E k \in 0..(Len(str) - Len(part)) : SubSeq(str, k + 1, k + Len(part)) = part

\* string.trim()
RECURSIVE trim(_)
trim(str) ==
    IF Len(str) = 0 THEN ""
    ELSE IF SubSeq(str, 1, 1) = " " THEN trim(SubSeq(str, 2, Len(str)))
    ELSE IF SubSeq(str, Len(str), Len(str)) = " " THEN trim(SubSeq(str, 1, Len(str) - 1))
    ELSE str

\* the key of the settings if it is not blank, else the key of the build
getEffectiveApiKey(localKey, envKey) ==
    IF localKey # Null /\ Len(trim(localKey)) > 0 THEN trim(localKey)
    ELSE IF envKey # Undefined /\ Len(envKey) > 0 /\ ~includes(envKey, "undefined")
         THEN trim(envKey)
    ELSE ""

isQuotaError(error) ==
    LET msg == toLowerCase(error.message)
    IN  \/ error.status = 429
        \/ includes(msg, "429") \/ includes(msg, "quota")
        \/ includes(msg, "resource_exhausted")

isServerBusy(error) ==
    LET msg == toLowerCase(error.message)
    IN  error.status = 503 \/ includes(msg, "503") \/ includes(msg, "overloaded")

isInvalidKey(error) ==
    error.status \in {400, 403} /\ includes(toLowerCase(error.message), "key")

\* a delay that stays as it is
SameDelay(delay) == delay
\* delay *= 2
NextDelay(delay) == delay * 2

RetryIdle ==
    [pc |-> "idle", i |-> 0, delay |-> 0, localKey |-> Null, envKey |-> Undefined,
     attempts |-> 0, errors |-> <<>>, waits |-> <<>>, thrown |-> Null]

\* retryWithBackoff up to the first await: the key check and, with a key,
\* the first call of the operation
retryWithBackoff ==
    /\ retry.pc = "idle"
    /\ retry' = IF getEffectiveApiKey(retry.localKey, retry.envKey) = ""
                THEN [retry EXCEPT !.pc = "thrown", !.thrown = "API_KEY_MISSING"]
                ELSE [retry EXCEPT !.pc = "attempt", !.i = 0, !.delay = InitialDelay,
                                   !.attempts = 1]
    /\ UNCHANGED <<editorVars, promptVars, labsVars, sessionVars, debounceVars, requestVars, canvasVars>>

\* the operation has returned a value
operationReturned ==
    /\ retry.pc = "attempt"
    /\ retry' = [retry EXCEPT !.pc = "returned"]
    /\ UNCHANGED <<editorVars, promptVars, labsVars, sessionVars, debounceVars, requestVars, canvasVars>>

\* the operation has thrown error: the catch block
operationThrew(error) ==
    /\ retry.pc = "attempt"
    /\ retry' =
         LET seen == [retry EXCEPT !.errors = Append(retry.errors, error)]
         IN  IF isQuotaError(error)
             THEN [seen EXCEPT !.pc = "thrown", !.thrown = "QUOTA_EXHAUSTED"]
             ELSE IF isServerBusy(error) /\ retry.i < Retries - 1
                  THEN [seen EXCEPT !.pc = "wait"]
             ELSE IF isInvalidKey(error)
                  THEN [seen EXCEPT !.pc = "thrown", !.thrown = "API_KEY_INVALID"]
             ELSE [seen EXCEPT !.pc = "thrown", !.thrown = error.message]
    /\ UNCHANGED <<editorVars, promptVars, labsVars, sessionVars, debounceVars, requestVars, canvasVars>>

\* the backoff timer has fired: the delay doubles and the loop goes on
backoffElapsed ==
    /\ retry.pc = "wait"
    /\ retry' =
         LET next == [retry EXCEPT !.waits = Append(retry.waits, retry.delay),
                                   !.delay = NextDelay(retry.delay),
                                   !.i = retry.i + 1]
         IN  IF next.i < Retries
             THEN [next EXCEPT !.pc = "attempt", !.attempts = retry.attempts + 1]
             ELSE [next EXCEPT !.pc = "thrown", !.thrown = "Max retries exceeded"]
    /\ UNCHANGED <<editorVars, promptVars, labsVars, sessionVars, debounceVars, requestVars, canvasVars>>

InitServiceIdle == retry = RetryIdle

(***************************************************************************)
(* Initial states                                                          *)
(***************************************************************************)
\* the blocks handleCreateFile gives a new file when no idea text is entered
\* (the first two of its five default blocks)
DefaultFileBlocks ==
    << [id |-> "b-Subject-0-f1", type |-> SUBJECT, isActive |-> TRUE,
        customLabel |-> "Subject",
        sections |-> DefaultSections(BLOCK_DEFINITIONS[SUBJECT]),
        referenceImage |-> Undefined],
       [id |-> "b-Background & Atmosphere-0-f2", type |-> BACKGROUND, isActive |-> TRUE,
        customLabel |-> "Background",
        sections |-> DefaultSections(BLOCK_DEFINITIONS[BACKGROUND]),
        referenceImage |-> Undefined] >>

InitPrompt ==
    /\ promptOut = <<>>
    /\ argLocal = <<>>
    /\ argGlobal = <<>>

InitLabs ==
    /\ overlays = <<>>
    /\ selectedLabsLayerId = Null
    /\ dragMode = "none"
    /\ dragStart = [x |-> 0, y |-> 0]
    /\ initialOverlayState = NoOverlay
    /\ pointer = [x |-> 0, y |-> 0]
    /\ pressed = [x |-> 0, y |-> 0, overlays |-> <<>>, selected |-> Null]
    /\ moves = [drag |-> 0, all |-> 0, last |-> "none"]

\* no call pending, no history: the session of a file that was never
\* generated (file.history, file.previewImage, file.roughIdea are unset)
InitSessionIdle ==
    /\ history = <<>>
    /\ blockRefs = <<>>
    /\ nextRef = 0
    /\ generatedImage = Null
    /\ labsBaseImage = Null
    /\ isGenerating = FALSE
    /\ isRefining = FALSE
    /\ isRebuilding = FALSE
    /\ quickEditInstruction = ""
    /\ roughIdea = ""
    /\ calls = {}
    /\ issued = [calls |-> 0, edits |-> 0]

InitRest == InitSessionIdle /\ InitDebounceIdle /\ InitServiceIdle /\ InitRequestIdle /\ InitCanvasIdle

\* a global Background of the project, as addGlobalBlock made it earlier
ProjectGlobal ==
    [id |-> "b-Background & Atmosphere-0-g1", type |-> BACKGROUND, isActive |-> TRUE,
     customLabel |-> "Background",
     sections |-> DefaultSections(BLOCK_DEFINITIONS[BACKGROUND]),
     referenceImage |-> Undefined]

\* the block handlers leave the prompt tab and the Labs canvas as they are
OthersIdle == UNCHANGED <<promptVars, labsVars, restVars>>

InitEditor ==
    /\ selectedBlockId = IF Len(blocks) > 0 THEN blocks[1].id ELSE "general"
    /\ toastMessage = Null
    /\ baseStyle = "Photorealistic"
    /\ useBaseStyle = TRUE
    /\ now = 0
    /\ rnd = 0

\* the Editor opened on a new file or on an empty one, in a project with or
\* without a global block
InitStore ==
    /\ blocks \in {<<>>, DefaultFileBlocks}
    /\ globalBlocks \in {<<>>, <<ProjectGlobal>>}
    /\ InitEditor
    /\ InitPrompt
    /\ InitLabs
    /\ InitRest

\* the Editor's operations on the block list of the open file
NextStore ==
    \/ \E t \in AddTypes : addBlock(t) /\ OthersIdle
    \/ \E it \in LibraryItems :
          addBlockFromLibrary(it.block, it.sourcePreview) /\ OthersIdle
    \/ \E i \in 1..Len(effectiveBlocks) : duplicateBlock(effectiveBlocks[i]) /\ OthersIdle
    \/ \E i \in 1..Len(effectiveBlocks) : toggleBlockActive(effectiveBlocks[i]) /\ OthersIdle
    \/ \E i \in 1..Len(effectiveBlocks) : removeBlock(effectiveBlocks[i].id) /\ OthersIdle
    \/ Tick /\ OthersIdle

\* the project view's and the Editor's operations on the global blocks
InitGlobal ==
    /\ blocks \in {<<>>, DefaultFileBlocks}
    /\ globalBlocks = <<>>
    /\ InitEditor
    /\ InitPrompt
    /\ InitLabs
    /\ InitRest

NextGlobal ==
    \/ \E t \in AddTypes : addGlobalBlock(t) /\ OthersIdle
    \/ \E i \in 1..Len(effectiveBlocks) : toggleBlockActive(effectiveBlocks[i]) /\ OthersIdle
    \/ \E i \in 1..Len(effectiveBlocks) : handleBlockSelect(effectiveBlocks[i].id) /\ OthersIdle
    \/ setUseBaseStyle(~useBaseStyle) /\ OthersIdle
    \/ Tick /\ OthersIdle

SpecGlobal == InitGlobal /\ [][NextGlobal]_vars

SpecStore == InitStore /\ [][NextStore]_vars

(***************************************************************************)
(* The prompt compiler on its own: the inputs are drawn from lists over a  *)
(* pool of blocks the Editor can hold, and the Prompt tab calls the        *)
(* compiler on them (Editor line 1051, no aspect ratio).                   *)
(***************************************************************************)
\* a block of the given type whose sections are the defaults, but for the
\* sections in on (enabled) and the fields in set (<<section, field, value>>)
PoolBlock(id, type, isActive, customLabel, on, set) ==
    LET d == DefaultSections(BLOCK_DEFINITIONS[type])
    IN  [id |-> id, type |-> type, isActive |-> isActive, customLabel |-> customLabel,
         sections |->
            [sec \in DOMAIN d |->
                [enabled |-> IF sec \in on THEN JsTrue ELSE d[sec].enabled,
                 fields |-> [f \in DOMAIN d[sec].fields |->
                    IF \E e \in set : e[1] = sec /\ e[2] = f
                    THEN (CHOOSE e \in set : e[1] = sec /\ e[2] = f)[3]
                    ELSE d[sec].fields[f]]]],
         referenceImage |-> Undefined]

LocalPool ==
    { PoolBlock("block-10", SUBJECT, TRUE, "Subject 1", {},
                {<<"core", "role", "Detective">>}),
      PoolBlock("block-11", SUBJECT, TRUE, "Hero", {"interactions"},
                {<<"interactions", "target_subject", "Subject 1">>,
                 <<"interactions", "interaction_type", "chasing">>}),
      PoolBlock("block-12", SUBJECT, FALSE, "Sidekick", {},
                {<<"core", "role", "Pilot">>}),
      PoolBlock("block-13", BACKGROUND, TRUE, "Background 1", {},
                {<<"setting", "environment", "Rain-soaked alley">>}),
      PoolBlock("block-15", BACKGROUND, TRUE, "Backdrop", {},
                {<<"weather", "precip_type", "Snow">>,
                 <<"transparency", "remove_bg", JsTrue>>}),
      PoolBlock("block-16", BACKGROUND, FALSE, "Studio", {"weather", "transparency"},
                {<<"weather", "precip_type", "Rain">>,
                 <<"transparency", "remove_bg", JsTrue>>}),
      PoolBlock("block-17", MOOD, TRUE, "Mood 1", {},
                {<<"emotion", "primary", "Happy">>, <<"atmosphere", "vibe", "Calm">>}),
      PoolBlock("block-18", LIGHTING, TRUE, "Lighting 1", {}, {}),
      PoolBlock("block-19", CAMERA, TRUE, "Camera 1", {},
                {<<"composition", "shot_size", "Close-up">>}),
      PoolBlock("block-20", STYLE, TRUE, "Art Style 1", {},
                {<<"render", "medium", "Anime">>,
                 <<"film_stock", "film_type", "Kodak Portra 400">>}),
      PoolBlock("block-21", POST_PROCESSING, TRUE, "Color Grade 1", {}, {}),
      PoolBlock("block-22", FX, TRUE, "Effects 1", {}, {}) }

GlobalPool ==
    { PoolBlock("b-Background & Atmosphere-5-g1", BACKGROUND, TRUE, "Background",
                {"transparency"}, {<<"transparency", "remove_bg", JsTrue>>}),
      PoolBlock("b-Subject-5-g2", SUBJECT, TRUE, "Subject", {}, {}),
      PoolBlock("b-Mood & Emotion-5-g3", MOOD, TRUE, "Mood", {},
                {<<"emotion", "primary", "Sad">>}) }

\* the global lists handed to the compiler: none, one block, or the Subject
\* with the Background
GlobalInputs ==
    {<<>>} \cup {<<g>> : g \in GlobalPool}
    \cup {<<g, h>> : <<g, h>> \in {q \in GlobalPool \X GlobalPool :
                                      q[1].type = SUBJECT /\ q[2].type = BACKGROUND}}

\* the lists of at most n different blocks of a pool
ListsOver(pool, n) ==
    UNION { {l \in [1..k -> pool] : \A i, j \in 1..k : i # j => l[i] # l[j]} : k \in 0..n }

ActiveOfType(list, t) == {i \in 1..Len(list) : list[i].type = t /\ list[i].isActive}

SingleActive(list) == \A t \in SingleTypes : Cardinality(ActiveOfType(list, t)) <= 1

InitCompiler ==
    /\ blocks \in {l \in ListsOver(LocalPool, MaxLocalArgs) : SingleActive(l)}
    /\ globalBlocks \in GlobalInputs
    /\ baseStyle \in {"", "Photorealistic"}
    /\ useBaseStyle \in BOOLEAN
    /\ selectedBlockId = "general"
    /\ toastMessage = Null
    /\ now = 0
    /\ rnd = 0
    /\ InitPrompt
    /\ InitLabs
    /\ InitRest

\* the Prompt tab renders: constructPromptFromBlocks(blocks, baseStyle,
\* useBaseStyle, globalBlocks) runs on the arrays the Editor holds
RenderPromptTab ==
    /\ Len(promptOut) < MaxCalls
    /\ promptOut' = Append(promptOut,
          constructPromptFromBlocks(blocks, baseStyle, useBaseStyle, globalBlocks, Undefined))
    /\ blocks' = LocalArrayAfter(blocks, useBaseStyle, globalBlocks)
    /\ globalBlocks' = GlobalArrayAfter(blocks, useBaseStyle, globalBlocks)
    /\ argLocal' = IF Len(promptOut) = 0 THEN blocks ELSE argLocal
    /\ argGlobal' = IF Len(promptOut) = 0 THEN globalBlocks ELSE argGlobal
    /\ UNCHANGED <<selectedBlockId, toastMessage, baseStyle, useBaseStyle, now, rnd,
                   labsVars, restVars>>

NextCompiler == RenderPromptTab

SpecCompiler == InitCompiler /\ [][NextCompiler]_vars

(***************************************************************************)
(* The Labs canvas: the Editor with an image, the Labs panel open          *)
(***************************************************************************)
InitCanvas ==
    /\ blocks = DefaultFileBlocks
    /\ globalBlocks = <<>>
    /\ InitEditor
    /\ InitPrompt
    /\ InitLabs
    /\ InitRest

NextCanvas ==
    \/ addTextOverlay
    \/ \E i \in 1..Len(overlays) : removeTextOverlay(overlays[i].id)
    \/ \E e \in {p \in PointerEvents : OnCanvas(p)} : handlePointerDown(e)
    \/ \E e \in PointerEvents : handlePointerMove(e)
    \/ handlePointerUp

SpecCanvas == InitCanvas /\ [][NextCanvas]_vars

(***************************************************************************)
(* Properties of the visibility resolver and of the prompt compiler        *)
(***************************************************************************)
\* haystack.includes(needle)
Contains(haystack, needle) ==
    \E i \in 1..(Len(haystack) - Len(needle) + 1) :
        SubSeq(haystack, i, i + Len(needle) - 1) = needle

NoActiveOfType(list, t) == ~\E i \in 1..Len(list) : list[i].type = t /\ list[i].isActive

HasSection(secDefs, id) == \E i \in 1..Len(secDefs) : secDefs[i].id = id

\* the list the compiler resolves conditions against, and the one it merges
CompilerList == sortedBlocks(MergedBlocks(blocks, useBaseStyle, globalBlocks))
MergedInput == MergedBlocks(blocks, useBaseStyle, globalBlocks)
PartsNow == promptParts(blocks, baseStyle, useBaseStyle, globalBlocks, Undefined)
AllBlocksNow == Range(blocks) \cup Range(globalBlocks)

\* C4: a section whose condition names a blockType is shown neither by the
\* block controls nor to the prompt compiler when the list handed to the
\* resolver (the Editor's effective list, the project's globals, the
\* compiler's merged list, or the empty list) has no active block of that
\* type, whatever the section's own block holds.
C4_FailClosed ==
    /\ \A L \in {CompilerList, effectiveBlocks, globalBlocks, blocks, <<>>} :
         \A b \in AllBlocksNow :
           \A i \in 1..Len(BLOCK_DEFINITIONS[b.type].sections) :
             LET sec == BLOCK_DEFINITIONS[b.type].sections[i]
             IN  (sec.condition.blockType # Undefined
                  /\ NoActiveOfType(L, sec.condition.blockType))
                 => /\ ~HasSection(visibleSections(b, L), sec.id)
                    /\ ~HasSection(activeSections(b, L), sec.id)
    /\ (Len(promptOut) > 0 /\ NoActiveOfType(CompilerList, SUBJECT))
         => ~Contains(promptOut[1], "Feeling: ")

\* an active Mood with a feeling set, next to a Subject that is switched off
C4_Witness ==
    /\ Len(promptOut) > 0
    /\ \E i \in 1..Len(blocks) :
          /\ blocks[i].type = MOOD /\ blocks[i].isActive
          /\ FieldValue(blocks[i], "emotion", "primary") = "Happy"
    /\ \E i \in 1..Len(blocks) : blocks[i].type = SUBJECT /\ ~blocks[i].isActive
    /\ NoActiveOfType(CompilerList, SUBJECT)
    /\ Contains(promptOut[1], "[Mood & Emotion - ")

\* other values a field can be given
AltValues(fieldDef) ==
    IF fieldDef.type = "toggle" THEN {JsTrue, JsFalse} ELSE {"Zeta", ""}

\* the field belongs to an inactive block, to a section whose condition is
\* false, or to a toggleable section that is not enabled
HiddenField(b, secDef) ==
    \/ ~b.isActive
    \/ ~SectionShown(b, secDef, CompilerList)
    \/ (secDef.toggleable /\ b.sections[secDef.id].enabled # JsTrue)

\* the inputs that differ from list in one hidden field of one block
HiddenVariants(list) ==
    { [list EXCEPT ![i].sections[sd.id].fields[fd.id] = v] :
        <<i, sd, fd, v>> \in
          { q \in UNION { UNION { UNION { { <<i2, sd2, fd2, v2>> :
                                              v2 \in AltValues(fd2) } :
                                      fd2 \in Range(sd2.fields) } :
                              sd2 \in Range(BLOCK_DEFINITIONS[list[i2].type].sections) } :
                      i2 \in 1..Len(list) } :
              HiddenField(list[q[1]], q[2]) } }

\* C5: two inputs that differ only in a field of a section that is not
\* visible or not enabled, or in data of an inactive block, compile to the
\* same string.
C5_HiddenFieldsIgnored ==
    LET out == constructPromptFromBlocks(blocks, baseStyle, useBaseStyle, globalBlocks,
                                         Undefined)
    IN  Len(promptOut) > 0 =>
          /\ out = promptOut[1]
          /\ \A l2 \in HiddenVariants(blocks) :
                constructPromptFromBlocks(l2, baseStyle, useBaseStyle, globalBlocks,
                                          Undefined) = out
          /\ \A g2 \in HiddenVariants(globalBlocks) :
                constructPromptFromBlocks(blocks, baseStyle, useBaseStyle, g2,
                                          Undefined) = out

\* C6: the isolation directive is emitted exactly when the first active
\* Background of the merged list has its transparency section enabled and
\* remove_bg true; it is then the first segment after the style prefix; with
\* the transparency section disabled there is no directive.
C6_IsolationDirective ==
    LET i == FindActiveOfType(MergedInput, BACKGROUND)
        expected == /\ i # 0
                    /\ MergedInput[i].sections["transparency"].enabled = JsTrue
                    /\ MergedInput[i].sections["transparency"].fields["remove_bg"] = JsTrue
        first == IF useBaseStyle /\ baseStyle # "" THEN 2 ELSE 1
        parts == PartsNow
    IN  Len(promptOut) > 0 =>
          /\ expected <=> \E k \in 1..Len(parts) : parts[k] = IsolationDirective
          /\ expected => parts[first] = IsolationDirective
          /\ ~expected
                => ~Contains(promptOut[1], "Isolated on a solid pure white background")

\* the order of the types the clauses are to follow
ClauseOrder ==
    <<SUBJECT, CAMERA, LIGHTING, BACKGROUND, FX, STYLE, POST_PROCESSING, MOOD>>

\* the type and the place in ClauseOrder of a clause, read off its header
ClauseRank(seg) ==
    CHOOSE k \in 1..Len(ClauseOrder) : StartsWith(seg, "[" \o ClauseOrder[k] \o " - ")

IsClause(seg) ==
    \E k \in 1..Len(ClauseOrder) : StartsWith(seg, "[" \o ClauseOrder[k] \o " - ")

\* the positions of the clauses that carry the block's type and label
ClausesOf(parts, b) ==
    {k \in 1..Len(parts) :
        \/ StartsWith(parts[k], "[" \o b.type \o " - \"" \o b.customLabel \o "\"]: ")
        \/ StartsWith(parts[k], "[" \o b.type \o " - " \o b.customLabel \o "]: ")}

\* C7: the clauses come in the order Subject, Camera, Lighting, Background,
\* Effects, Style, Post-processing, Mood; the clauses of two blocks of one
\* type keep the order of the blocks in the merged list; an inactive block
\* has no clause.
C7_ClauseOrder ==
    LET parts == PartsNow
        merged == MergedInput
    IN  Len(promptOut) > 0 =>
          /\ promptOut[1] = Join(parts, ". ")
          /\ \A k, l \in 1..Len(parts) :
                (k < l /\ IsClause(parts[k]) /\ IsClause(parts[l]))
                   => ClauseRank(parts[k]) <= ClauseRank(parts[l])
          /\ \A i, j \in 1..Len(merged) :
                (i < j /\ merged[i].type = merged[j].type
                   /\ merged[i].isActive /\ merged[j].isActive)
                   => \A k \in ClausesOf(parts, merged[i]) :
                        \A l \in ClausesOf(parts, merged[j]) : k < l
          /\ \A b \in AllBlocksNow : ~b.isActive => ClausesOf(parts, b) = {}

\* a global Subject, and a local Lighting listed before a local Subject:
\* three clauses, the two Subjects first
C7_Witness ==
    /\ useBaseStyle
    /\ Len(globalBlocks) = 1 /\ globalBlocks[1].type = SUBJECT
    /\ Len(blocks) = 2 /\ blocks[1].type = LIGHTING
    /\ blocks[2].type = SUBJECT /\ blocks[2].isActive
    /\ ClausesOf(PartsNow, globalBlocks[1]) # {}
    /\ ClausesOf(PartsNow, blocks[1]) # {}
    /\ ClausesOf(PartsNow, blocks[2]) # {}
    /\ Len(promptOut) > 0

DetectiveScenario ==
    /\ ~useBaseStyle
    /\ Len(blocks) = 2
    /\ \E i \in 1..2 :
          /\ blocks[i].type = SUBJECT /\ blocks[i].isActive
          /\ FieldValue(blocks[i], "core", "category") = "Human"
          /\ FieldValue(blocks[i], "core", "role") = "Detective"
    /\ \E i \in 1..2 :
          /\ blocks[i].type = BACKGROUND /\ blocks[i].isActive
          /\ FieldValue(blocks[i], "setting", "type") = "Outdoor"
          /\ FieldValue(blocks[i], "setting", "environment") = "Rain-soaked alley"
          /\ blocks[i].sections["transparency"].enabled # JsTrue
    /\ Len(promptOut) > 0

C1_LocalSingleActive == SingleActive(blocks)

\* C2: after any sequence of addGlobalBlock and of toggles of global blocks
\* issued from the Editor, every singleActiveInstance type has at most one
\* active global block.
C2_GlobalSingleActive == SingleActive(globalBlocks)

\* the globals the effective list keeps, by position in globalBlocks
KeptGlobals ==
    {i \in 1..Len(globalBlocks) :
        ~(globalBlocks[i].type \in SingleTypes
          /\ \E j \in 1..Len(blocks) : blocks[j].type = globalBlocks[i].type)}

\* C3: with useBaseStyle the effective list is the global blocks in their
\* order, minus every global of a singleActiveInstance type of which a local
\* block exists, followed by the local blocks in their order; without
\* useBaseStyle it is exactly the local blocks.
C3_EffectiveList ==
    LET eff == effectiveBlocks
        n == Len(eff) - Len(blocks)
    IN  IF useBaseStyle
        THEN /\ n = Cardinality(KeptGlobals)
             /\ \A i \in KeptGlobals :
                    LET pos == Cardinality({k \in KeptGlobals : k <= i})
                    IN  /\ eff[pos].id = globalBlocks[i].id
                        /\ eff[pos].type = globalBlocks[i].type
                        /\ eff[pos].isActive = globalBlocks[i].isActive
                        /\ eff[pos].sections = globalBlocks[i].sections
             /\ \A j \in 1..Len(blocks) : eff[n + j] = blocks[j]
             /\ (HasType(blocks, BACKGROUND) =>
                    \A k \in 1..n : eff[k].type # BACKGROUND)
        ELSE eff = blocks

\* a global Background shadowed by an inactive local one, behind a global
\* Subject that is kept
C3_Witness ==
    /\ useBaseStyle
    /\ \E i \in 1..Len(globalBlocks) : globalBlocks[i].type = BACKGROUND
    /\ \E i \in 1..Len(globalBlocks) : globalBlocks[i].type = SUBJECT
    /\ \E j \in 1..Len(blocks) : blocks[j].type = BACKGROUND /\ ~blocks[j].isActive
    /\ Len(effectiveBlocks) = Len(blocks) + 1
(***************************************************************************)
(* The session of a file opened with the default blocks: the mount effect  *)
(* has put the entry 'Initial State' into the empty history, the concept   *)
(* text of the file is set                                                 *)
(***************************************************************************)
InitSession ==
    /\ blocks = DefaultFileBlocks
    /\ globalBlocks = <<>>
    /\ InitEditor
    /\ InitPrompt
    /\ InitLabs
    /\ blockRefs = FreshRefs(Len(blocks), 0)
    /\ nextRef = 4 * Len(blocks)
    /\ generatedImage \in {Null, "img-0"}
    /\ labsBaseImage = generatedImage
    /\ history = << [id |-> "h-" \o ToString(now),
                     action |-> "Initial State",
                     blocks |-> JsonCopyList(blocks),
                     refs |-> JsonCopyRefs(blocks, blockRefs, 2 * Len(blocks)),
                     previewImage |-> IF generatedImage = Null THEN Undefined
                                      ELSE generatedImage,
                     overlays |-> <<>>,
                     taken |-> [blocks |-> blocks, refs |-> blockRefs]] >>
    /\ isGenerating = FALSE
    /\ isRefining = FALSE
    /\ isRebuilding = FALSE
    /\ quickEditInstruction = ""
    /\ roughIdea = "a knight at dawn"
    /\ calls = {}
    /\ issued = [calls |-> 0, edits |-> 0]
    /\ InitDebounceIdle
    /\ InitServiceIdle
    /\ InitRequestIdle
    /\ InitCanvasIdle

ImageOutcomes == {"image", "throw"}
BlockOutcomes == {"blocks", "throw"}

\* the user starts no more than MaxIssued handlers
MayStart == issued.calls < MaxIssued

NextSession ==
    \/ \E i \in 1..Len(blocks) : toggleLocalBlock(blocks[i])
    \/ setQuickEditInstruction("make it night")
    \/ MayStart /\ handleGenerate
    \/ \E call \in calls : \E outcome \in ImageOutcomes : generateSettled(call, outcome)
    \/ MayStart /\ handleQuickEdit(FALSE)
    \/ \E call \in calls : \E outcome \in BlockOutcomes : refineSettled(call, outcome)
    \/ \E call \in calls : \E outcome \in ImageOutcomes : editGenerateSettled(call, outcome)
    \/ MayStart /\ handleRebuildBlocks
    \/ \E call \in calls : \E outcome \in BlockOutcomes : analyzeSettled(call, outcome)
    \/ \E call \in calls : suggestSettled(call)
    \/ MayStart /\ handleApplyLabs
    \/ \E call \in calls : applyLabsFired(call)
    \/ \E i \in 1..Len(history) : restoreHistory(i)

SpecSession == InitSession /\ [][NextSession]_vars

(***************************************************************************)
(* The same session with every way the user has to start a call: the       *)
(* Generate button, Quick Edit by its button or by the Enter key, Rebuild   *)
(* Blocks and the Labs AI action                                           *)
(***************************************************************************)
\* the user starts no more than MaxInFlight handlers
MayCall == issued.calls < MaxInFlight

NextAsync ==
    \/ setQuickEditInstruction("make it night")
    \/ MayCall /\ handleGenerate
    \/ \E call \in calls : \E outcome \in ImageOutcomes : generateSettled(call, outcome)
    \/ \E byKey \in BOOLEAN : MayCall /\ handleQuickEdit(byKey)
    \/ \E call \in calls : \E outcome \in BlockOutcomes : refineSettled(call, outcome)
    \/ \E call \in calls : \E outcome \in ImageOutcomes : editGenerateSettled(call, outcome)
    \/ MayCall /\ handleRebuildBlocks
    \/ \E call \in calls : \E outcome \in BlockOutcomes : analyzeSettled(call, outcome)
    \/ \E call \in calls : suggestSettled(call)
    \/ MayCall /\ handleLabsAIAction
    \/ \E call \in calls : \E outcome \in ImageOutcomes : labsAISettled(call, outcome)

SpecAsync == InitSession /\ [][NextAsync]_vars

(***************************************************************************)
(* The change summary on its own: a file saved with one history entry and  *)
(* edited since; Generate labels the new entry with getChangeSummary of    *)
(* the entry's blocks and the live blocks.  Each of four blocks is absent, *)
(* as first made, or changed.                                              *)
(***************************************************************************)
SummaryPool ==
    << << PoolBlock("block-1", SUBJECT, TRUE, "Subject 1", {},
                    {<<"core", "role", "Detective">>}),
          PoolBlock("block-1", SUBJECT, FALSE, "Subject 1", {},
                    {<<"core", "role", "Detective">>}) >>,
       << PoolBlock("block-2", SUBJECT, TRUE, "Subject 2", {}, {}),
          PoolBlock("block-2", SUBJECT, TRUE, "Hero", {}, {}) >>,
       << PoolBlock("block-3", SUBJECT, TRUE, "Subject 3", {}, {}),
          PoolBlock("block-3", SUBJECT, TRUE, "Subject 3", {},
                    {<<"core", "role", "Knight">>}) >>,
       << PoolBlock("block-4", BACKGROUND, TRUE, "Background 1", {},
                    {<<"setting", "environment", "Forest">>}),
          PoolBlock("block-4", BACKGROUND, TRUE, "Background 1", {},
                    {<<"setting", "environment", "Beach">>}) >> >>

\* the list that holds, in order, the chosen variant of every pool block
RECURSIVE ListOf(_, _)
ListOf(choice, i) ==
    IF i > Len(SummaryPool) THEN <<>>
    ELSE (IF choice[i] = 0 THEN <<>> ELSE <<SummaryPool[i][choice[i]]>>)
         \o ListOf(choice, i + 1)

OldLists == {ListOf(c, 1) : c \in [1..Len(SummaryPool) -> {0, 1}]}
NewLists == {ListOf(c, 1) : c \in [1..Len(SummaryPool) -> {0, 1, 2}]}

InitSummary ==
    /\ blocks \in NewLists
    /\ globalBlocks = <<>>
    /\ InitEditor
    /\ InitPrompt
    /\ InitLabs
    /\ blockRefs = FreshRefs(Len(blocks), 0)
    /\ \E old \in OldLists :
          /\ history = << [id |-> "h-" \o ToString(now),
                           action |-> "Regenerated",
                           blocks |-> old,
                           refs |-> FreshRefs(Len(old), 2 * Len(blocks)),
                           previewImage |-> "img-0",
                           overlays |-> <<>>,
                           taken |-> [blocks |-> old, refs |-> <<>>]] >>
          /\ nextRef = 2 * Len(blocks) + 2 * Len(old)
    /\ generatedImage = "img-0"
    /\ labsBaseImage = "img-0"
    /\ isGenerating = FALSE
    /\ isRefining = FALSE
    /\ isRebuilding = FALSE
    /\ quickEditInstruction = ""
    /\ roughIdea = ""
    /\ calls = {}
    /\ issued = [calls |-> 0, edits |-> 0]
    /\ InitDebounceIdle
    /\ InitServiceIdle
    /\ InitRequestIdle
    /\ InitCanvasIdle

NextSummary ==
    \/ MayStart /\ handleGenerate
    \/ \E call \in calls : \E outcome \in ImageOutcomes : generateSettled(call, outcome)

SpecSummary == InitSummary /\ [][NextSummary]_vars

(***************************************************************************)
(* The interactions of three local Subjects: the user selects a block,     *)
(* switches its interactions section, picks a target from the list and     *)
(* types what the subject does.  The first two Subjects carry either the   *)
(* numbered label addBlock gave them or a name the user gave them.         *)
(***************************************************************************)
Verbs == {"Fighting", "Talking to"}

InitInteract ==
    /\ \E la \in {"Subject 1", "Villain"} : \E lb \in {"Subject 2", "Hero"} :
          blocks = << PoolBlock("block-1", SUBJECT, TRUE, la, {}, {}),
                      PoolBlock("block-2", SUBJECT, TRUE, lb, {}, {}),
                      PoolBlock("block-3", SUBJECT, TRUE, "Guide", {}, {}) >>
    /\ globalBlocks = <<>>
    /\ InitEditor
    /\ InitPrompt
    /\ InitLabs
    /\ InitRest

NextInteract ==
    \/ \E i \in 1..Len(effectiveBlocks) : handleBlockSelect(effectiveBlocks[i].id) /\ OthersIdle
    \/ /\ HasSelectedBlock /\ selectedBlock.type = SUBJECT
       /\ \E enabled \in {JsTrue, JsFalse} :
             updateBlock(ToggledSection(selectedBlock, "interactions", enabled))
       /\ OthersIdle
    \/ /\ HasSelectedBlock /\ InteractionsOpen(selectedBlock)
       /\ \E v \in TargetOptions(selectedBlock, effectiveBlocks) :
             updateBlock(UpdatedField(selectedBlock, "interactions", "target_subject", v))
       /\ OthersIdle
    \/ /\ HasSelectedBlock /\ InteractionsOpen(selectedBlock)
       /\ \E v \in Verbs :
             updateBlock(UpdatedField(selectedBlock, "interactions", "interaction_type", v))
       /\ OthersIdle

SpecInteract == InitInteract /\ [][NextInteract]_vars

(***************************************************************************)
(* The suggestion debounce of a new file: the effect has run once at the   *)
(* mount; the user types or clears the concept, switches the base style,   *)
(* toggles a block and switches a section of the first block (which leaves *)
(* the context as it is).                                                  *)
(***************************************************************************)
Ideas == {"", "a knight at dawn"}

InitDebounce ==
    /\ blocks \in {<<>>, DefaultFileBlocks}
    /\ globalBlocks = <<>>
    /\ InitEditor
    /\ InitPrompt
    /\ InitLabs
    /\ InitSessionIdle
    /\ InitServiceIdle
    /\ InitRequestIdle
    /\ InitCanvasIdle
    /\ LET out == EffectBody({}, 0, "", ContextNow, 1)
       IN  /\ timers = out.timers
           /\ debounceTimerRef = out.ref
           /\ debounce = [set |-> IF out.ref = 1 THEN 1 ELSE 0, changes |-> 0,
                          quiet |-> 0, calls |-> 0]
    /\ lastContextRef = ""
    /\ asked = <<>>
    /\ suggesting = {}

NextDebounce ==
    \/ \E text \in Ideas :
          setRoughIdea(text) /\ DependencyFrame /\ suggestEffect
    \/ setUseBaseStyle(~useBaseStyle) /\ DependencyFrame /\ UNCHANGED roughIdea
          /\ suggestEffect
    \/ \E i \in 1..Len(blocks) :
          toggleBlockActive(blocks[i]) /\ DependencyFrame /\ UNCHANGED roughIdea
          /\ suggestEffect
    \/ /\ HasSelectedBlock
       /\ \E enabled \in {JsTrue, JsFalse} :
             /\ SectionState(selectedBlock, "interactions").enabled # enabled
             /\ updateBlock(ToggledSection(selectedBlock, "interactions", enabled))
       /\ DependencyFrame /\ UNCHANGED roughIdea
       /\ suggestEffect
    \/ SecondPasses
    \/ \E t \in timers : timerFired(t)
    \/ \E id \in suggesting : suggestionsSettled(id)

SpecDebounce == InitDebounce /\ [][NextDebounce]_vars

\* the event loop runs a timer that is due, and time goes on
SpecDebounceFair ==
    /\ SpecDebounce
    /\ WF_vars(SecondPasses)
    /\ WF_vars(\E t \in timers : timerFired(t))

(***************************************************************************)
(* Blocks that come from outside: the raw blocks of the AI (well formed; a *)
(* section, a field and the id left out and an unknown section and field   *)
(* added; an unknown type; values of the wrong type) through Rebuild       *)
(* Blocks, and blocks of the library (the other file's Background, and a   *)
(* Background saved before the transparency section existed) through       *)
(* addBlockFromLibrary.                                                    *)
(***************************************************************************)
RawPool ==
    { [id |-> "b-Subject-7-ai1", type |-> SUBJECT,
       sections |-> [DefaultSections(BLOCK_DEFINITIONS[SUBJECT])
                       EXCEPT !["core"].fields["role"] = "Knight"]],
      [id |-> Undefined, type |-> SUBJECT,
       sections |-> [s \in {"core", "pets"} |->
                       IF s = "core"
                       THEN [enabled |-> Undefined,
                             fields |-> [f \in {"category", "age"} |->
                                           IF f = "category" THEN "Animal" ELSE "7"]]
                       ELSE [enabled |-> JsTrue,
                             fields |-> [f \in {"kind"} |-> "Dog"]]]],
      [id |-> "b-Vehicle-7-ai3", type |-> "Vehicle",
       sections |-> [s \in {"body"} |->
                       [enabled |-> Undefined, fields |-> [f \in {"colour"} |-> "Red"]]]],
      [id |-> "b-Background & Atmosphere-7-ai4", type |-> BACKGROUND,
       sections |-> [DefaultSections(BLOCK_DEFINITIONS[BACKGROUND])
                       EXCEPT !["setting"].fields["environment"] = JsTrue,
                              !["transparency"].fields["remove_bg"] = "yes"]] }

RawLists ==
    {<<>>} \cup {<<r>> : r \in RawPool} \cup {<<r, q>> : r \in RawPool, q \in RawPool}

LegacyBackground ==
    [id |-> "b-Background & Atmosphere-0-f4", type |-> BACKGROUND, isActive |-> TRUE,
     customLabel |-> "Background",
     sections |-> [s \in {"setting", "weather"} |->
                     DefaultSections(BLOCK_DEFINITIONS[BACKGROUND])[s]],
     referenceImage |-> Undefined]

ImportLibrary ==
    {[block |-> b, sourcePreview |-> "preview.png"] : b \in OtherFileBlocks \cup {LegacyBackground}}

InitImport ==
    /\ blocks = <<>>
    /\ globalBlocks = <<>>
    /\ InitEditor
    /\ InitPrompt
    /\ InitLabs
    /\ history = <<>>
    /\ blockRefs = <<>>
    /\ nextRef = 0
    /\ generatedImage = Null
    /\ labsBaseImage = Null
    /\ isGenerating = FALSE
    /\ isRefining = FALSE
    /\ isRebuilding = FALSE
    /\ quickEditInstruction = ""
    /\ roughIdea = "a knight at dawn"
    /\ calls = {}
    /\ issued = [calls |-> 0, edits |-> 0]
    /\ InitDebounceIdle
    /\ InitServiceIdle
    /\ InitRequestIdle
    /\ InitCanvasIdle

NextImport ==
    \/ \E it \in ImportLibrary :
          /\ calls = {}
          /\ addBlockFromLibrary(it.block, it.sourcePreview)
          /\ UNCHANGED <<promptVars, labsVars, debounceVars, serviceVars, requestVars, canvasVars, history, nextRef,
                         generatedImage, labsBaseImage, isGenerating, isRefining,
                         isRebuilding, quickEditInstruction, roughIdea, calls, issued>>
          /\ blockRefs' = FreshRefs(Len(blocks'), nextRef)
    \/ MayStart /\ handleRebuildBlocks
    \/ \E call \in calls : \E raw \in RawLists : analyzeImported(call, raw)
    \/ \E call \in calls : suggestSettled(call)
    \/ Tick /\ OthersIdle

SpecImport == InitImport /\ [][NextImport]_vars

(***************************************************************************)
(* One run of retryWithBackoff: the keys of the settings and of the build  *)
(* are drawn, and each call of the operation returns or throws one of the  *)
(* errors of the service.                                                  *)
(***************************************************************************)
LocalKeys == {Null, "  ", " AIza-local "}
EnvKeys == {Undefined, "", "undefined", "AIza-build"}

ServiceErrors ==
    { [status |-> 503, message |-> "Service Unavailable"],
      [status |-> 0, message |-> "The model is OVERLOADED"],
      [status |-> 429, message |-> "Too Many Requests"],
      [status |-> 0, message |-> "RESOURCE_EXHAUSTED"],
      [status |-> 503, message |-> "Quota exceeded"],
      [status |-> 500, message |-> "Internal error"],
      [status |-> 400, message |-> "API key not valid"],
      [status |-> 0, message |-> "Failed to fetch"] }

InitRetry ==
    /\ blocks = <<>>
    /\ globalBlocks = <<>>
    /\ InitEditor
    /\ InitPrompt
    /\ InitLabs
    /\ InitSessionIdle
    /\ InitDebounceIdle
    /\ InitRequestIdle
    /\ InitCanvasIdle
    /\ \E lk \in LocalKeys : \E ek \in EnvKeys :
          retry = [RetryIdle EXCEPT !.localKey = lk, !.envKey = ek]

NextRetry ==
    \/ retryWithBackoff
    \/ operationReturned
    \/ \E error \in ServiceErrors : operationThrew(error)
    \/ backoffElapsed

SpecRetry == InitRetry /\ [][NextRetry]_vars

(***************************************************************************)
(* The Prompt tab and the generation request on one document               *)
(***************************************************************************)
RequestLocals ==
    { PoolBlock("block-10", SUBJECT, TRUE, "Subject 1", {},
                {<<"core", "role", "Detective">>}),
      PoolBlock("block-13", BACKGROUND, TRUE, "Background 1", {},
                {<<"setting", "environment", "Rain-soaked alley">>}),
      PoolBlock("block-16", BACKGROUND, FALSE, "Studio", {},
                {<<"setting", "environment", "Studio">>}),
      PoolBlock("block-19", CAMERA, TRUE, "Camera 1", {},
                {<<"composition", "shot_size", "Close-up">>}) }

\* the project's global Background, with a reference image
GlobalBackdrop ==
    With(PoolBlock("b-Background & Atmosphere-5-g1", BACKGROUND, TRUE, "Background", {},
                   {<<"setting", "environment", "Forest">>}),
         "referenceImage", "data:image/png;base64,Zm9yZXN0")

RequestGlobals ==
    { <<>>, <<GlobalBackdrop>>,
      <<PoolBlock("b-Subject-5-g2", SUBJECT, TRUE, "Subject", {},
                  {<<"core", "role", "Guide">>}), GlobalBackdrop>> }

AspectRatios == {"1:1", "16:9"}

InitRequest ==
    /\ blocks \in {l \in ListsOver(RequestLocals, MaxLocalArgs) : SingleActive(l)}
    /\ globalBlocks \in RequestGlobals
    /\ baseStyle = "Photorealistic"
    /\ useBaseStyle \in BOOLEAN
    /\ selectedBlockId = "general"
    /\ toastMessage = Null
    /\ now = 0
    /\ rnd = 0
    /\ InitPrompt
    /\ InitLabs
    /\ history = <<>>
    /\ blockRefs = <<>>
    /\ nextRef = 0
    /\ generatedImage \in {Null, "img-0"}
    /\ labsBaseImage = generatedImage
    /\ isGenerating = FALSE
    /\ isRefining = FALSE
    /\ isRebuilding = FALSE
    /\ quickEditInstruction = ""
    /\ roughIdea = ""
    /\ calls = {}
    /\ issued = [calls |-> 0, edits |-> 0]
    /\ InitDebounceIdle
    /\ InitServiceIdle
    /\ InitRequestIdle
    /\ InitCanvasIdle

NextRequest ==
    \/ RenderPromptTab
    \/ generateImageFromBlocks
    \/ \E value \in AspectRatios : setAspectRatio(value)

SpecRequest == InitRequest /\ [][NextRequest]_vars

(***************************************************************************)
(* The Labs layers: overlays, presets, reset, apply and history restore    *)
(***************************************************************************)
\* a press on the middle of the canvas, where a new text lies, and one on a corner
LayerPresses == {[x |-> 200, y |-> 200], [x |-> 0, y |-> 0]}

InitLayers ==
    /\ InitSession
    /\ generatedImage = "img-0"

NextLayers ==
    \/ addTextOverlay
    \/ \E i \in 1..Len(overlays) : removeTextOverlay(overlays[i].id)
    \/ \E preset \in PRESETS : applyPreset(preset)
    \/ handleResetLabs
    \/ \E e \in LayerPresses : handlePointerDown(e)
    \/ MayStart /\ handleApplyLabs
    \/ \E call \in calls : applyLabsFired(call)
    \/ \E i \in 1..Len(history) : restoreHistory(i)

SpecLayers == InitLayers /\ [][NextLayers]_vars

(***************************************************************************)
(* Labs Apply: the deselect, the redraw of the canvas and the capture      *)
(***************************************************************************)
NextCapture ==
    \/ addTextOverlay
    \/ \E e \in LayerPresses : handlePointerDown(e)
    \/ handlePointerUp
    \/ drawCanvas
    \/ MayStart /\ handleApplyLabs
    \/ \E call \in calls : applyLabsFired(call)

SpecCapture == InitLayers /\ [][NextCapture]_vars

(***************************************************************************)
(* The controls of a block: field updates and section toggles              *)
(***************************************************************************)
\* the values the controls of the model give a field: its default and one more
FieldInputs(fieldDef) ==
    {fieldDef.defaultValue} \cup
    (CASE fieldDef.id = "category" -> {"Object"}
       [] fieldDef.id = "medium" -> {"Oil Painting"}
       [] fieldDef.id = "material_type" -> {"Wood"}
       [] fieldDef.id = "target_subject" -> {}
       [] fieldDef.type = "toggle" -> {JsTrue}
       [] OTHER -> {"Zeta"})

\* a file with a Subject and a Mood block made by createDefaultBlockState and
\* an Art Style block made by addBlock
InitFields ==
    /\ now = 0
    /\ rnd = 0
    /\ blocks = << createDefaultBlockState(SUBJECT),
                   createDefaultBlockState(MOOD),
                   [id |-> "block-0", type |-> STYLE, isActive |-> TRUE,
                    customLabel |-> "Art Style 1",
                    sections |-> DefaultSections(BLOCK_DEFINITIONS[STYLE]),
                    referenceImage |-> Undefined] >>
    /\ globalBlocks = <<>>
    /\ InitEditor
    /\ InitPrompt
    /\ InitLabs
    /\ InitRest

NextFields ==
    \/ \E i \in 1..Len(effectiveBlocks) : handleBlockSelect(effectiveBlocks[i].id) /\ OthersIdle
    \/ \E t \in BlockType : \E secDef \in Range(BLOCK_DEFINITIONS[t].sections) :
          \E fieldDef \in Range(secDef.fields) : \E value \in FieldInputs(fieldDef) :
             fieldChanged(secDef, fieldDef, value) /\ OthersIdle
    \/ \E t \in BlockType : \E secDef \in Range(BLOCK_DEFINITIONS[t].sections) :
          \E enabled \in {JsTrue, JsFalse} :
             sectionToggled(secDef, enabled) /\ OthersIdle

SpecFields == InitFields /\ [][NextFields]_vars

(***************************************************************************)
(* Properties of the Labs canvas                                           *)
(***************************************************************************)
\* the overlay of the given id in a list (the list holds it)
OverlayById(list, id) == list[CHOOSE i \in 1..Len(list) : list[i].id = id]

HasOverlay(list, id) == \E i \in 1..Len(list) : list[i].id = id

\* a pointer displacement in CSS pixels as percent of the canvas element
PercentOf(delta, extent) == (delta * 100) \div extent

\* a move-drag under way: the overlay taken at pointer-down is still there
\* and at least one pointer-move has been handled
MoveDragging ==
    /\ dragMode = "move"
    /\ moves.drag > 0
    /\ initialOverlayState # NoOverlay
    /\ HasOverlay(overlays, initialOverlayState.id)
    /\ HasOverlay(pressed.overlays, initialOverlayState.id)

HandleCentre(o) ==
    LET scaleFactor == canvas.width \div 1000
        fontSize == (o.size * scaleFactor * 3) \div 2
        halfWidth == MeasureText(o.text, fontSize) \div 2
        halfHeight == fontSize \div 2
        padding == 10 * scaleFactor
    IN  [x |-> (o.x * canvas.width) \div 100 + halfWidth + padding + 5,
         y |-> (o.y * canvas.height) \div 100 + halfHeight + padding + 5,
         radius |-> 20 * scaleFactor]

\* the pointer-down point lies within the handle radius of overlay o
OnHandle(o, down) ==
    LET c == HandleCentre(o)
        px == (down.x - rect.left) * (canvas.width \div rect.width)
        py == (down.y - rect.top) * (canvas.height \div rect.height)
    IN  (px - c.x) * (px - c.x) + (py - c.y) * (py - c.y) < c.radius * c.radius

\* a resize-drag under way: the overlay taken at pointer-down is still there
\* and at least one pointer-move has been handled
ResizeDragging ==
    /\ dragMode = "resize"
    /\ moves.drag > 0
    /\ initialOverlayState # NoOverlay
    /\ HasOverlay(overlays, initialOverlayState.id)
    /\ HasOverlay(pressed.overlays, initialOverlayState.id)

C11_NotSelectedMoves ==
    /\ dragMode = "move"
    /\ initialOverlayState # NoOverlay
    /\ pressed.selected # initialOverlayState.id
    /\ HasOverlay(pressed.overlays, initialOverlayState.id)
    /\ OnHandle(OverlayById(pressed.overlays, initialOverlayState.id), pressed)

\* resize-drags that reach the two ends of the size range
C11_ClampLow ==
    ResizeDragging /\ OverlayById(overlays, initialOverlayState.id).size = 10
        /\ pointer.x = 0

C11_ClampHigh ==
    ResizeDragging /\ OverlayById(overlays, initialOverlayState.id).size = 300
        /\ pointer.x = 1300

\* the pointer-down point lies in the padded text box of overlay o, widened
\* by 5 canvas pixels on every side
InBox(o, down) ==
    LET c == HandleCentre(o)
        left == 2 * ((o.x * canvas.width) \div 100) - (c.x - 5)
        top == 2 * ((o.y * canvas.height) \div 100) - (c.y - 5)
        px == (down.x - rect.left) * (canvas.width \div rect.width)
        py == (down.y - rect.top) * (canvas.height \div rect.height)
    IN  /\ px >= left - 5 /\ px <= c.x
        /\ py >= top - 5 /\ py <= c.y

\* the point is on overlay o: in its box, or on its handle while selected
Covers(o, down, selectedId) ==
    InBox(o, down) \/ (o.id = selectedId /\ OnHandle(o, down))

\* a step taken by one of the three pointer handlers
PointerStep == moves'.all = moves.all + 1

C12_IdleMove ==
    /\ moves.last = "move" /\ dragMode = "none"
    /\ initialOverlayState # NoOverlay
    /\ HasOverlay(overlays, initialOverlayState.id)
    /\ moves.drag > 1

\* a pointer-down on empty space that cleared a selection
C12_Deselect ==
    /\ moves.last = "down" /\ dragMode = "none" /\ selectedLabsLayerId = Null
    /\ pressed.selected # Null /\ Len(overlays) > 0

(***************************************************************************)
(* Properties of the history                                               *)
(***************************************************************************)
\* the object identities a list of blocks is made of
RefSet(refs) == UNION {{refs[i].obj, refs[i].sections} : i \in 1..Len(refs)}

\* an entry shares no object with the live blocks, with the blocks it was
\* taken from, or with another entry, and still holds what was read when it
\* was taken
EntriesApart ==
    /\ \A i \in 1..Len(history) :
          /\ RefSet(history[i].refs) \cap RefSet(blockRefs) = {}
          /\ RefSet(history[i].refs) \cap RefSet(history[i].taken.refs) = {}
          /\ history[i].blocks = history[i].taken.blocks
          /\ Len(history[i].refs) = Len(history[i].blocks)
    /\ \A i, k \in 1..Len(history) :
          i # k => RefSet(history[i].refs) \cap RefSet(history[k].refs) = {}

SnapshotStep ==
    \E call \in calls :
        \/ generateSettled(call, "image")
        \/ editGenerateSettled(call, "image")
        \/ suggestSettled(call)
        \/ (applyLabsFired(call) /\ labsBaseImage # Null)

ExternalCalls ==
    {call \in calls : call.kind \in {"generate", "refine", "editGenerate", "analyze",
                                     "suggest", "labsAI"}}

\* C19: for one open file at most one generation, image-edit or AI-refine
\* call is in flight at any time, whatever the order in which the user
\* presses Generate, Quick Edit (button or Enter key), Rebuild Blocks and
\* the Labs AI action and in which the pending calls settle.
C19_OneInFlight == Cardinality(ExternalCalls) <= 1

(***************************************************************************)
(* Properties of the change summary                                        *)
(***************************************************************************)
\* one description per changed block: the added blocks, the removed blocks
\* and the modified blocks
ChangedBlocks(old, new) ==
    LET IsAdded(b) == ~\E i \in 1..Len(old) : old[i].id = b.id
        IsRemoved(b) == ~\E i \in 1..Len(new) : new[i].id = b.id
        IsModified(b) == \E i \in 1..Len(old) :
                            /\ old[i].id = b.id
                            /\ \/ old[i].sections # b.sections
                               \/ old[i].isActive # b.isActive
                               \/ old[i].customLabel # b.customLabel
        AddedText(b) == "Added " \o getSmartLabel(b)
        RemovedText(b) == "Removed " \o getSmartLabel(b)
        ModifiedText(b) == "Modified " \o getSmartLabel(b)
    IN  MapSeq(SelectSeq(new, IsAdded), AddedText)
        \o MapSeq(SelectSeq(old, IsRemoved), RemovedText)
        \o MapSeq(SelectSeq(new, IsModified), ModifiedText)

ExpectedSummary(old, new) ==
    LET changed == ChangedBlocks(old, new)
        N == Len(changed)
    IN  IF N = 0 THEN "Regenerated"
        ELSE IF N = 1 THEN changed[1]
        ELSE IF N = 2 THEN changed[1] \o ", " \o changed[2]
        ELSE ToString(N) \o " Changes (e.g. " \o changed[1] \o ")"

\* C15: the label Generate gives the new history entry is the change
\* summary of the previous entry's blocks and the live blocks with one
\* change per added, removed or modified block: Regenerated for none, the
\* description for one, the two descriptions joined by a comma for two, and
\* N Changes (e.g. <first>) for N >= 3 changed blocks.
C15_ChangeSummary ==
    Len(history) >= 2 =>
        history[1].action = ExpectedSummary(history[2].blocks, history[1].taken.blocks)

(***************************************************************************)
(* Properties of removeBlock and duplicateBlock                            *)
(***************************************************************************)
RemoveAt(list, k) == SubSeq(list, 1, k - 1) \o SubSeq(list, k + 1, Len(list))

\* the operation was refused: nothing but the notice changed
Rejected ==
    /\ blocks' = blocks
    /\ globalBlocks' = globalBlocks
    /\ selectedBlockId' = selectedBlockId
    /\ toastMessage' # toastMessage

\* C16: removeBlock and duplicateBlock on a block of the global scope leave
\* the local list, the global list and the selection unchanged and only set
\* a notice; removeBlock on a local block removes exactly that block and
\* moves the selection to 'general' if and only if it was the selected one.
C16_RemoveAndReject ==
    [][\A i \in 1..Len(effectiveBlocks) :
          LET b == effectiveBlocks[i]
          IN  /\ (duplicateBlock(b) /\ IsGlobalId(b.id)) => Rejected
              /\ removeBlock(b.id) =>
                    IF IsGlobalId(b.id) THEN Rejected
                    ELSE /\ \E k \in 1..Len(blocks) :
                               /\ blocks[k] = b
                               /\ blocks' = RemoveAt(blocks, k)
                         /\ globalBlocks' = globalBlocks
                         /\ selectedBlockId' = IF selectedBlockId = b.id THEN "general"
                                               ELSE selectedBlockId]_vars

\* C17: duplicateBlock on a local block inserts exactly one block right
\* after the source and leaves the others and their order unchanged; the
\* copy has an id no block had, the label '<type label> N' with N = number
\* of local blocks of the type before the call plus 1, the source's content
\* otherwise, and is inactive for a singleActiveInstance type (else active
\* as the source is).
C17_Duplicate ==
    [][\A i \in 1..Len(effectiveBlocks) :
          LET b == effectiveBlocks[i]
              def == BLOCK_DEFINITIONS[b.type]
          IN  (duplicateBlock(b) /\ ~IsGlobalId(b.id)) =>
                \E k \in 1..Len(blocks) :
                    /\ blocks[k] = b
                    /\ Len(blocks') = Len(blocks) + 1
                    /\ RemoveAt(blocks', k + 1) = blocks
                    /\ LET copy == blocks'[k + 1]
                       IN  /\ ~HasId(blocks, copy.id)
                           /\ ~HasId(globalBlocks, copy.id)
                           /\ copy.customLabel =
                                 def.label \o " " \o ToString(CountType(blocks, b.type) + 1)
                           /\ copy.type = b.type
                           /\ copy.sections = b.sections
                           /\ copy.referenceImage = b.referenceImage
                           /\ copy.isActive = IF def.singleActiveInstance THEN FALSE
                                              ELSE b.isActive]_vars

(***************************************************************************)
(* Properties of the reciprocal interaction update                         *)
(***************************************************************************)
\* the blocks an edit of the selected block's interactions hands to updateBlock
InteractEdits ==
    IF ~HasSelectedBlock THEN {}
    ELSE {ToggledSection(selectedBlock, "interactions", e) : e \in {JsTrue, JsFalse}}
         \cup {UpdatedField(selectedBlock, "interactions", "target_subject", v) :
                  v \in TargetOptions(selectedBlock, effectiveBlocks)}
         \cup {UpdatedField(selectedBlock, "interactions", "interaction_type", v) : v \in Verbs}

\* a is a local Subject whose enabled interaction names a target
NamesTarget(a) ==
    /\ a.type = SUBJECT
    /\ HasId(blocks, a.id)
    /\ FieldValue(a, "interactions", "target_subject") # "None"
    /\ a.sections["interactions"].enabled = JsTrue

\* the local Subjects the target list of a offers under the name a chose
NamedBy(a) ==
    {k \in 1..Len(blocks) : /\ blocks[k].type = SUBJECT
                            /\ blocks[k].id # a.id
                            /\ blocks[k].isActive
                            /\ getSmartLabel(blocks[k]) =
                                  FieldValue(a, "interactions", "target_subject")}

\* b points back at a with a's verb
Reciprocates(b, a) ==
    /\ b.sections["interactions"].enabled = JsTrue
    /\ FieldValue(b, "interactions", "target_subject") \in {a.customLabel, getSmartLabel(a)}
    /\ FieldValue(b, "interactions", "interaction_type") =
          FieldValue(a, "interactions", "interaction_type")

\* C18: after updateBlock(A), A a local Subject whose enabled interaction
\* names another local Subject B by the label A's target list offers, B's
\* interactions section is enabled and points back at A with A's verb; no
\* block other than A and B changes, and B stays as it was only when it
\* already reciprocated with that target and verb.
C18_Reciprocal ==
    [][\A a \in InteractEdits :
          (updateBlock(a) /\ NamesTarget(a) /\ NamedBy(a) # {}) =>
             \E k \in NamedBy(a) :
                /\ Len(blocks') = Len(blocks)
                /\ Reciprocates(blocks'[k], a)
                /\ \A j \in 1..Len(blocks) :
                      IF blocks[j].id = a.id THEN blocks'[j] = a
                      ELSE j # k => blocks'[j] = blocks[j]]_vars

(***************************************************************************)
(* Properties of the suggestion debounce                                   *)
(***************************************************************************)
\* the context is one the collaborator was not asked about last, and long
\* enough to ask
ContextIsNew == ContextNow # lastContextRef /\ Len(ContextNow) > MinContextLength

\* the debounce has asked once since the last change, about the context now
AskedOnce == debounce.calls = 1 /\ asked # <<>> /\ asked[Len(asked)] = ContextNow

C25_UniqueIds ==
    /\ \A i, j \in 1..Len(blocks) : blocks[i].id = blocks[j].id => i = j
    /\ \A i \in 1..Len(blocks) : ~HasId(globalBlocks, blocks[i].id)

(***************************************************************************)
(* Properties of the import boundary                                       *)
(***************************************************************************)
\* v is a value of the type the field holds
RightType(fieldDef, v) ==
    IF fieldDef.type = "toggle" THEN v \in {JsTrue, JsFalse}
    ELSE v \notin {JsTrue, JsFalse, Undefined, Null}

\* b has a type of the schema and exactly its sections and fields, each
\* field with a value of its type
WellFormed(b) ==
    /\ b.type \in BlockType
    /\ LET def == BLOCK_DEFINITIONS[b.type]
       IN  /\ DOMAIN b.sections = SectionIds(def)
           /\ \A sid \in SectionIds(def) :
                 LET secDef == SecDefOf(def, sid)
                     sec == b.sections[sid]
                 IN  /\ DOMAIN sec.fields = FieldIds(secDef)
                     /\ sec.enabled \in (IF secDef.toggleable THEN {JsTrue, JsFalse}
                                          ELSE {Undefined})
                     /\ \A f \in FieldIds(secDef) :
                           RightType(FieldDefOf(secDef, f), sec.fields[f])

\* C22: every block that came into the document from the AI's output or
\* from the library has a type of the schema and exactly the sections and
\* fields of the schema for it, each with a value of the field's type.
C22_Normalized == \A i \in 1..Len(blocks) : WellFormed(blocks[i])

(***************************************************************************)
(* Properties of retryWithBackoff                                          *)
(***************************************************************************)
HasKey == getEffectiveApiKey(retry.localKey, retry.envKey) # ""

\* the last error the operation threw
LastError == retry.errors[Len(retry.errors)]

\* C21: the operation is attempted at most 3 times; every attempt but the
\* first follows a failure that was server-busy and not a quota failure,
\* after a wait of 2000 ms and then of 4000 ms; a quota failure ends the run
\* at once with QUOTA_EXHAUSTED, any other failure that is not server-busy
\* ends it at once, a third busy failure is thrown to the caller, and with
\* no API key the operation is never attempted and API_KEY_MISSING is
\* thrown.
C21_Retry ==
    /\ retry.attempts <= 3
    /\ retry.attempts > 0 => retry.attempts = Len(retry.waits) + 1
    /\ \A k \in 1..Len(retry.waits) :
          /\ retry.waits[k] = IF k = 1 THEN 2000 ELSE 4000
          /\ isServerBusy(retry.errors[k]) /\ ~isQuotaError(retry.errors[k])
    /\ Len(retry.errors) <= retry.attempts
    /\ (retry.errors # <<>> /\ retry.pc # "wait") =>
          /\ retry.pc = "thrown" <=> Len(retry.errors) = retry.attempts
          /\ (retry.pc = "thrown" /\ isQuotaError(LastError)) => retry.thrown = "QUOTA_EXHAUSTED"
    /\ retry.pc = "wait" =>
          /\ isServerBusy(LastError) /\ ~isQuotaError(LastError)
          /\ Len(retry.errors) < 3
    /\ Len(retry.errors) = 3 => retry.pc = "thrown" /\ retry.thrown # Null
    /\ ~HasKey => /\ retry.attempts = 0
                  /\ retry.pc \in {"idle", "thrown"}
                  /\ retry.pc = "thrown" => retry.thrown = "API_KEY_MISSING"
    /\ (HasKey /\ retry.pc = "thrown") => retry.thrown # "API_KEY_MISSING"

\* the operation was busy three times: two waits, three attempts, and the
\* error is thrown
C21_Witness ==
    /\ retry.attempts = 3
    /\ retry.waits = <<2000, 4000>>
    /\ retry.pc = "thrown"
    /\ isServerBusy(LastError)

\* a quota failure on the second attempt ended the run
C21_QuotaEnds ==
    /\ retry.attempts = 2
    /\ retry.pc = "thrown"
    /\ retry.thrown = "QUOTA_EXHAUSTED"

\* the run was refused for the lack of a key
C21_NoKey == retry.pc = "thrown" /\ retry.thrown = "API_KEY_MISSING"

(***************************************************************************)
(* Properties of the block controls                                        *)
(***************************************************************************)
\* the block has a section state, with every field, for every section of its schema
HasEverySection(b) ==
    LET def == BLOCK_DEFINITIONS[b.type]
    IN  \A s \in SectionIds(def) :
           /\ s \in DOMAIN b.sections
           /\ FieldIds(SecDefOf(def, s)) \subseteq DOMAIN b.sections[s].fields

\* a step that hides a conditional section, shows it again, or is taken while
\* it is hidden leaves the section's state as it was
HiddenSectionKept ==
    \A j \in 1..Len(blocks) :
       \A secDef \in Range(BLOCK_DEFINITIONS[blocks[j].type].sections) :
          (\/ ~SectionShown(blocks[j], secDef, blocks)
           \/ ~SectionShown(blocks'[j], secDef, blocks'))
          => blocks'[j].sections[secDef.id] = blocks[j].sections[secDef.id]

GlobalsUsed(req) ==
    {i \in 1..Len(globalBlocks) :
        /\ BLOCK_DEFINITIONS[globalBlocks[i].type].singleActiveInstance
        /\ globalBlocks[i].id \in
              req.promptBlocks \cup {req.backgroundBlock} \cup req.referenceBlocks}

\* C26: with the base style in use, a single-instance global block adds to
\* the structured prompt, to the background description and to the reference
\* images of a generation request only when the file has no local block of
\* its type, active or not: the rule of effectiveBlocks
C26_SameShadowing ==
    [][generateImageFromBlocks =>
         \A i \in GlobalsUsed(request') : RelevantGlobal(globalBlocks[i], blocks)]_vars

\* the text the Prompt tab shows for the document as it is
PromptTabText ==
    constructPromptFromBlocks(blocks, baseStyle, useBaseStyle, globalBlocks, Undefined)

\* C27: the structured prompt Generate puts into its request is the text the
\* Prompt tab shows for the same blocks, global blocks, base style,
\* useBaseStyle and aspect ratio
C27_SamePromptText ==
    [][generateImageFromBlocks => request'.structuredPrompt = PromptTabText]_vars

(***************************************************************************)
(* Properties of the results of asynchronous calls                         *)
(***************************************************************************)
\* the blocks or the image of the document are no longer those the call was
\* started with, or a later call was started
ChangedSince(call) ==
    \/ call.c.blocks # blocks
    \/ call.c.image # generatedImage
    \/ issued.calls > call.n

\* a generation or refinement call delivers its result
ResultArrives(call) ==
    \/ generateSettled(call, "image")
    \/ refineSettled(call, "blocks")
    \/ editGenerateSettled(call, "image")

\* C28: the result of a generation or refinement call that arrives after the
\* document has changed (blocks edited, history restored, a newer call
\* started) is discarded: blocks, image and history stay as they are
C28_StaleDiscarded ==
    [][\A call \in calls :
          (ResultArrives(call) /\ ChangedSince(call))
          => UNCHANGED <<blocks, generatedImage, labsBaseImage, history>>]_vars

\* Generate, Quick Edit, Rebuild Blocks or Labs Apply ends with success
Succeeds ==
    \E call \in calls :
       \/ generateSettled(call, "image")
       \/ editGenerateSettled(call, "image")
       \/ suggestSettled(call)
       \/ applyLabsFired(call)

\* C29: right after a successful Generate, Quick Edit, Rebuild Blocks or
\* Labs Apply the newest history entry holds the live blocks and the live
\* image, so that restoring it changes neither
C29_NewestIsLive ==
    [][Succeeds =>
         /\ Len(history') > 0
         /\ history'[1].blocks = JsonCopyList(blocks')
         /\ (IF Falsy(history'[1].previewImage) THEN Null ELSE history'[1].previewImage)
               = generatedImage']_vars

(***************************************************************************)
(* Properties of the Labs layer selection                                  *)
(***************************************************************************)
\* C30: the selected Labs layer is null or the id of an overlay of
\* labsState.overlays, whatever overlays are added or removed, presets
\* applied, Labs reset or applied, history restored and pointers pressed
C30_SelectionValid ==
    \/ selectedLabsLayerId = Null
    \/ \E i \in 1..Len(overlays) : overlays[i].id = selectedLabsLayerId

(***************************************************************************)
(* Properties of the Labs capture                                          *)
(***************************************************************************)
\* C24: the image Labs Apply captures shows no selection rectangle and no
\* resize handle, however the deselect, the redraw of the canvas, the 50 ms
\* timer and pointer events are interleaved
C24_CleanCapture ==
    [][\A call \in calls :
          applyLabsFired(call) => generatedImage' \in {generatedImage, toDataURL(call.n, Null)}]_vars
====
